---- MODULE Spec2Model ----
(***************************************************************************)
(* Model of the AI image engine's provider gateway (services/aiService.ts): *)
(* retryableAIOperation, fetchWithTimeout, generateText, generateJsonText,  *)
(* generateImage, analyzeImageWithVision, extractJson, and of the content   *)
(* analysis built on it: generateImageBriefsAndAltsBatch,                   *)
(* insertPlaceholderHeuristically and getContentWithImagePlaceholder; of    *)
(* the crawl (App.handleStartCrawling over the WordPress service), of the  *)
(* job pipeline over the CMS calls, and of the configuration form.         *)
(***************************************************************************)
EXTENDS Integers, Sequences, FiniteSets, TLC

VARIABLES
    pc,        \* position of the running gateway operation
    op,        \* the operation and its configuration
    i,         \* loop index of retryableAIOperation
    attempts,  \* number of times apiCall() was invoked
    waits,     \* the delays awaited by retryableAIOperation, oldest first
    errs,      \* the errors caught by retryableAIOperation (lastError is the last)
    settled,   \* how the latest apiCall() promise settled
    outcome,   \* what the operation handed to its caller
    net,       \* the call that is awaited now
    netCalls,  \* number of network requests issued
    n429,      \* number of 429 responses received from the network
    jtext,     \* extractJson: the input text (a sequence of characters)
    jn,        \* extractJson: number of pieces the input text was built from
    jpc,       \* extractJson: "off", "input" or "done"
    jresult,   \* extractJson: the returned value
    bpc,       \* generateImageBriefsAndAltsBatch: "off", "idle", "request", "delay" or "done"
    nPosts,    \* posts.length
    bi,        \* the loop index i of generateImageBriefsAndAltsBatch
    allResults,\* allResults: one chunk per accepted batch
    progress,  \* the calls made to onProgress, as <<processed, total>>
    bLog,      \* what the batch loop did so far, oldest first
    bCalls,    \* per settled batch: network requests issued, 429 answers received, what came back
    bOutcome,  \* what generateImageBriefsAndAltsBatch handed to its caller
    ppc,       \* getContentWithImagePlaceholder: "off", "idle", "asking" or "done"
    postContent, \* the post's content: a sequence of top-level nodes
    pReply,    \* the text the AI answered the placement question with
    pRoute,    \* the return statement getContentWithImagePlaceholder left by
    pOutcome,  \* what getContentWithImagePlaceholder handed to its caller
    imgLog,    \* per image provider, how the latest generateImage call for it ended
    appState,  \* App: appState
    config,    \* App: config, "null" or "set"
    posts,     \* App: posts
    crawlProgress, \* App: crawlProgress
    cpc,       \* handleStartCrawling: "off", "idle", "count" or "page" (the awaited request)
    total,     \* handleStartCrawling: total (-1 stands for NaN or a negative number)
    allPosts,  \* handleStartCrawling: allPosts
    currentPage, \* handleStartCrawling: currentPage
    alertMsg,  \* what alert() showed in the crawl started last, "" when nothing
    wpLog,     \* the requests sent to the CMS in the crawl started last, oldest first
    rpc,       \* the processing pass: "off", "idle", "running" or "done"
    imgProvider, \* the image provider configured for the pass
    backlog,   \* the posts handed to the pass, as they were when it started
    jobs,      \* the posts of the pass with their status, message and generated image
    cur,       \* the position in the backlog of the post being processed
    cmsPosts,  \* the posts as the CMS stores them: content and featured_media
    mediaAlt,  \* the ids of the uploaded media whose alt text was patched
    stageLog,  \* per post, the stages whose work settled and how ("ok" or "failed")
    kpc,       \* ConfigurationStep: "off", "form" or "submitted"
    imageProvider,    \* ConfigurationStep: imageProvider
    analysisProvider, \* ConfigurationStep: analysisProvider
    apiKeys,   \* ConfigurationStep: apiKeys, "" where no key is stored for a holder
    submitted, \* the apiKey fields of the configuration passed to onConfigure
    formAlert  \* what handleSubmit alerted last: the holder whose key is missing, or ""

gwVars == <<pc, op, i, attempts, waits, errs, settled, outcome, net, netCalls, n429>>
jsonVars == <<jtext, jn, jpc, jresult>>
batchVars == <<bpc, nPosts, bi, allResults, progress, bLog, bCalls, bOutcome>>
placeVars == <<ppc, postContent, pReply, pRoute, pOutcome>>
imgVars == <<imgLog>>
crawlVars == <<appState, config, posts, crawlProgress, cpc, total, allPosts, currentPage,
               alertMsg, wpLog>>
pipeVars == <<rpc, imgProvider, backlog, jobs, cur, cmsPosts, mediaAlt, stageLog>>
cfgVars == <<kpc, imageProvider, analysisProvider, apiKeys, submitted, formAlert>>
uiVars == <<crawlVars, pipeVars, cfgVars>>
appVars == <<imgVars, uiVars>>
vars == <<gwVars, jsonVars, batchVars, placeVars, appVars>>

----------------------------------------------------------------------------
(* Program constants *)

DefaultRetries == 3
DefaultInitialDelay == 2000
DefaultTimeout == 90000
ImageFetchTimeout == 30000
PlacementRetries == 2
PlacementInitialDelay == 500
PlacementTimeout == 20000

(* Bounds of the model *)

MaxRetries == 4
MaxPieces == 5

----------------------------------------------------------------------------
(* Providers (types.ts) *)

TextAIProvider == {"Gemini", "OpenAI", "Groq", "OpenRouter"}
AIProvider == {"Gemini", "DallE3", "Stability", "OpenRouter", "Pollinations"}

----------------------------------------------------------------------------
(* Errors.  An error is its class, its HTTP status (FetchError only) and   *)
(* the markers its message contains, which is all the retry logic reads.   *)

Err(cls, status, marks) == [cls |-> cls, status |-> status, marks |-> marks]
NoErr == Err("none", 0, {})

\* new FetchError("API request failed with status ${status}", status)
FetchError(status) == Err("FetchError", status, IF status = 429 THEN {"429"} ELSE {})
\* Error("Request timed out after ${timeout / 1000} seconds.")
TimeoutError == Err("Timeout", 0, {})
\* the TypeError a failed fetch rejects with
NetworkError == Err("Network", 0, {})
\* what the Gemini SDK rejects with: the message is the JSON error body
ApiError(code) == Err("ApiError", 0, IF code = 429 THEN {"429", "RESOURCE_EXHAUSTED"} ELSE {})

NoOutcome == [type |-> "none", val |-> "", err |-> NoErr]
Value(v) == [type |-> "value", val |-> v, err |-> NoErr]
Thrown(e) == [type |-> "error", val |-> "", err |-> e]

NoNet == [via |-> "none", timeout |-> 0, target |-> "none"]
NetCall(via, timeout, target) == [via |-> via, timeout |-> timeout, target |-> target]

NoOp == [kind |-> "none", provider |-> "none", hasKey |-> FALSE, hasModel |-> FALSE,
         envKey |-> FALSE, retries |-> 0, initialDelay |-> 0]

Pow2(n) == 2 ^ n

----------------------------------------------------------------------------
(* retryableAIOperation *)

IsRateLimitError_Any(error) == TRUE

\* isRateLimitError
IsRateLimitError(error) ==
    \/ (error.cls = "FetchError" /\ error.status = 429)
    \/ "429" \in error.marks
    \/ "RESOURCE_EXHAUSTED" \in error.marks

WaitTime_OffByOne(initialDelay, idx) == initialDelay * Pow2(idx + 1)

\* const waitTime = initialDelay * Math.pow(2, i)
WaitTime(initialDelay, idx) == initialDelay * Pow2(idx)

LoopContinues_Inclusive(idx, retries) == idx <= retries

\* the loop condition i < retries
LoopContinues(idx, retries) == idx < retries

ExhaustedError_Rethrow(es) ==
    IF Len(es) = 0 THEN Err("Exhausted", 0, {}) ELSE es[Len(es)]

\* "AI request failed after ${retries} attempts. Last error: ${lastError.message}"
ExhaustedError(es) ==
    Err("Exhausted", 0, IF Len(es) = 0 THEN {} ELSE es[Len(es)].marks)

----------------------------------------------------------------------------
(* fetchWithTimeout, callOpenAICompatibleAPI, generateText, generateJsonText *)

Undefined == 0

\* fetchWithTimeout(resource, options, timeout = 90000): the request that is
\* issued and the abort timer armed for it
FetchWithTimeout(target, timeout) ==
    NetCall("fetch", IF timeout = Undefined THEN DefaultTimeout ELSE timeout, target)

\* a call made through the Gemini SDK client: no abort timer is armed for it
SdkCall(target) == NetCall("sdk", 0, target)

GeminiClientError_ConfigKey(o) ==
    IF o.envKey \/ o.hasKey THEN NoErr ELSE Err("Config", 0, {"API Key is not configured"})

\* getGeminiClient: throws when process.env.API_KEY is not set
GeminiClientError(o) ==
    IF o.envKey THEN NoErr ELSE Err("Config", 0, {"API Key is not configured"})

CallStart(e, n) == [err |-> e, net |-> n]

GenerateTextStart_NoModelCheck(o, timeout) ==
    CASE o.provider = "Gemini" ->
           IF GeminiClientError(o) # NoErr
             THEN CallStart(GeminiClientError(o), NoNet)
             ELSE CallStart(NoErr, SdkCall("generateContent"))
      [] OTHER ->
           IF ~o.hasKey
             THEN CallStart(Err("Validation", 0, {"API key is required"}), NoNet)
             ELSE CallStart(NoErr, FetchWithTimeout("chat", timeout))

\* generateText up to the point where it awaits the network: the switch over
\* the provider, the key and model checks, the request that is issued
GenerateTextStart(o, timeout) ==
    CASE o.provider = "Gemini" ->
           IF GeminiClientError(o) # NoErr
             THEN CallStart(GeminiClientError(o), NoNet)
             ELSE CallStart(NoErr, SdkCall("generateContent"))
      [] o.provider = "OpenAI" ->
           IF ~o.hasKey
             THEN CallStart(Err("Validation", 0, {"API key is required"}), NoNet)
             ELSE CallStart(NoErr, FetchWithTimeout("chat", timeout))
      [] o.provider \in {"Groq", "OpenRouter"} ->
           IF ~o.hasKey
             THEN CallStart(Err("Validation", 0, {"API key is required"}), NoNet)
             ELSE IF ~o.hasModel
               THEN CallStart(Err("Validation", 0, {"model name is required"}), NoNet)
               ELSE CallStart(NoErr, FetchWithTimeout("chat", timeout))
      [] OTHER -> CallStart(Err("Unsupported", 0, {}), NoNet)

\* generateJsonText up to the point where it awaits the network
GenerateJsonTextStart(o) ==
    IF o.provider = "Gemini"
      THEN IF GeminiClientError(o) # NoErr
             THEN CallStart(GeminiClientError(o), NoNet)
             ELSE CallStart(NoErr, SdkCall("generateContent"))
      ELSE GenerateTextStart(o, Undefined)

\* the apiCall closure each operation hands to retryableAIOperation
ApiCallStart(o) ==
    CASE o.kind = "retryable" -> CallStart(NoErr, NetCall("apiCall", 0, "apiCall"))
      [] o.kind = "briefs"    -> GenerateJsonTextStart(o)
      [] o.kind = "placement" -> GenerateTextStart(o, PlacementTimeout)
      [] o.kind = "vision"    -> CallStart(NoErr, SdkCall("generateContent"))
      [] o.kind = "image"     -> CallStart(NoErr, SdkCall("generateImages"))

----------------------------------------------------------------------------
(* What the awaited party can answer *)

Resp(t, status, body, e) == [t |-> t, status |-> status, body |-> body, err |-> e]

\* errors an arbitrary apiCall may reject with
GenericErrors ==
    { FetchError(429), FetchError(500), ApiError(429), ApiError(500),
      Err("Error", 0, {"429"}), Err("Error", 0, {"RESOURCE_EXHAUSTED"}),
      Err("Error", 0, {}), Err("NonError", 0, {"429"}), Err("NonError", 0, {}),
      NetworkError, TimeoutError }

ChatBodies == {"content", "noChoices", "emptyChoices", "emptyContent", "contentFilter"}
SdkTexts == {"text", "", "undefined"}

Responses(n) ==
    CASE n.via = "apiCall" ->
           {Resp("ret", 0, "v", NoErr)} \cup {Resp("throw", e.status, "", e) : e \in GenericErrors}
      [] n.via = "fetch" /\ n.target = "chat" ->
           {Resp("http", 200, b, NoErr) : b \in ChatBodies}
             \cup {Resp("http", st, "", NoErr) : st \in {429, 500}}
             \cup {Resp("netfail", 0, "", NoErr)}
      [] n.via = "fetch" /\ n.target = "image" ->
           {Resp("http", st, "", NoErr) : st \in {200, 429, 500}}
             \cup {Resp("netfail", 0, "", NoErr)}
      [] n.via = "sdk" /\ n.target = "generateContent" ->
           {Resp("sdk", 200, b, NoErr) : b \in SdkTexts}
             \cup {Resp("sdkerr", st, "", NoErr) : st \in {429, 500}}
      [] n.via = "sdk" /\ n.target = "generateImages" ->
           {Resp("sdk", 200, "images", NoErr)}
             \cup {Resp("sdkerr", st, "", NoErr) : st \in {429, 500}}
      [] OTHER -> {}

\* callOpenAICompatibleAPI after fetchWithTimeout resolved or rejected
ChatSettle(r) ==
    IF r.t = "netfail" THEN Thrown(NetworkError)
    ELSE IF r.status # 200 THEN Thrown(FetchError(r.status))
    ELSE IF r.body = "content" THEN Value("text")
    ELSE IF r.body = "contentFilter"
      THEN Thrown(Err("ContentFilter", 0, {"blocked the response"}))
      ELSE Thrown(Err("Empty", 0, {"empty or invalid response"}))

\* fetchImageAsBase64 after fetchWithTimeout resolved or rejected
ImageFetchSettle(r) ==
    IF r.t = "netfail" THEN Thrown(NetworkError)
    ELSE IF r.status # 200 THEN Thrown(Err("ImageFetch", 0, {"Failed to fetch image"}))
    ELSE Value("dataurl")

\* the Gemini branches: "return response.text", whatever it holds
SdkSettle(r) ==
    IF r.t = "sdkerr" THEN Thrown(ApiError(r.status)) ELSE Value(r.body)

\* how the awaited call n settles on answer r
Settle(n, r) ==
    CASE n.via = "apiCall" -> IF r.t = "ret" THEN Value(r.body) ELSE Thrown(r.err)
      [] n.via = "fetch" /\ n.target = "chat" -> ChatSettle(r)
      [] n.via = "fetch" /\ n.target = "image" -> ImageFetchSettle(r)
      [] OTHER -> SdkSettle(r)

\* what the operation does with the value retryableAIOperation returned
Finish(o, v) ==
    CASE o.kind = "vision" ->
           IF v = "text" THEN Value("analysis")
           ELSE Thrown(Err("Parse", 0, {"AI failed to generate valid analysis data"}))
      [] o.kind = "image" -> Value("dataurl")
      [] OTHER -> Value(v)

----------------------------------------------------------------------------
(* extractJson.  A text is a sequence of characters; positions are 0-based  *)
(* as in the source, -1 is "not found".                                     *)

Null == [null |-> TRUE, str |-> <<>>]
Str(q) == [null |-> FALSE, str |-> q]

Min(a, b) == IF a < b THEN a ELSE b
Max(a, b) == IF a > b THEN a ELSE b

IsSpace(c) == c = " "

\* text.charAt(p), p 0-based; "" outside the text
CharAt(text, p) == IF p >= 0 /\ p < Len(text) THEN text[p + 1] ELSE ""

\* text.substring(from, to)
Substring(text, from, to) == SubSeq(text, from + 1, to)

\* text.indexOf(c)
IndexOf(text, c) ==
    IF \E p \in 0..(Len(text) - 1) : text[p + 1] = c
      THEN CHOOSE p \in 0..(Len(text) - 1) :
             text[p + 1] = c /\ \A q \in 0..(p - 1) : text[q + 1] # c
      ELSE -1

\* text.lastIndexOf(c)
LastIndexOf(text, c) ==
    IF \E p \in 0..(Len(text) - 1) : text[p + 1] = c
      THEN CHOOSE p \in 0..(Len(text) - 1) :
             text[p + 1] = c /\ \A q \in (p + 1)..(Len(text) - 1) : text[q + 1] # c
      ELSE -1

\* String.prototype.trim
RECURSIVE Trim(_)
Trim(q) ==
    IF q = <<>> THEN q
    ELSE IF IsSpace(q[1]) THEN Trim(Tail(q))
    ELSE IF IsSpace(q[Len(q)]) THEN Trim(SubSeq(q, 1, Len(q) - 1))
    ELSE q

\* the backtick character
Tick == "'"

\* the literal fence (three backticks) at position p
FenceAt(text, p) ==
    CharAt(text, p) = Tick /\ CharAt(text, p + 1) = Tick /\ CharAt(text, p + 2) = Tick

\* the literal json at position p
JsonAt(text, p) ==
    /\ CharAt(text, p) = "j" /\ CharAt(text, p + 1) = "s"
    /\ CharAt(text, p + 2) = "o" /\ CharAt(text, p + 3) = "n"

\* text[from .. to-1] is all whitespace
AllSpace(text, from, to) == \A p \in from..(to - 1) : IsSpace(CharAt(text, p))

\* The ways the pattern  fence (?:json)? \s* ([\s\S]*?) \s* fence  matches at position s: the
\* characters taken by (?:json)?, by the first \s*, and the length of group 1
MatchesAt(text, s) ==
    IF ~FenceAt(text, s) THEN {}
    ELSE
      { m \in [tag : {0, 4}, ws : 0..Len(text), len : 0..Len(text)] :
          LET g == s + 3 + m.tag + m.ws IN
          /\ m.tag = 4 => JsonAt(text, s + 3)
          /\ AllSpace(text, s + 3 + m.tag, g)
          /\ \E e \in (g + m.len)..Len(text) :
                AllSpace(text, g + m.len, e) /\ FenceAt(text, e) }

\* The match the engine reports at s: it backtracks in the order (?:json)?
\* taken before skipped, \s* longest first, the lazy group shortest first
BestMatchAt(text, s) ==
    CHOOSE m \in MatchesAt(text, s) :
        \A o \in MatchesAt(text, s) :
            \/ m.tag > o.tag
            \/ (m.tag = o.tag /\ m.ws > o.ws)
            \/ (m.tag = o.tag /\ m.ws = o.ws /\ m.len <= o.len)

\* text.match(regex): the leftmost match and its group 1
CodeBlockMatch(text) ==
    IF \E s \in 0..(Len(text) - 1) : MatchesAt(text, s) # {}
      THEN LET s == CHOOSE x \in 0..(Len(text) - 1) :
                       MatchesAt(text, x) # {} /\ \A y \in 0..(x - 1) : MatchesAt(text, y) = {}
               m == BestMatchAt(text, s)
               g == s + 3 + m.tag + m.ws
           IN [found |-> TRUE, group |-> Substring(text, g, g + m.len)]
      ELSE [found |-> FALSE, group |-> <<>>]

StartIndex_BareMin(firstBracket, firstSquare) == Min(firstBracket, firstSquare)

\* the start of the JSON content
StartIndex(firstBracket, firstSquare) ==
    IF firstBracket = -1 THEN firstSquare
    ELSE IF firstSquare = -1 THEN firstBracket
    ELSE Min(firstBracket, firstSquare)

BraceSpan_NoOrderCheck(text) ==
    LET startIndex == StartIndex(IndexOf(text, "{"), IndexOf(text, "["))
        endIndex == Max(LastIndexOf(text, "}"), LastIndexOf(text, "]"))
    IN IF startIndex = -1 THEN Null
       ELSE IF endIndex = -1 THEN Null
       ELSE Str(Trim(Substring(text, Min(startIndex, endIndex + 1), Max(startIndex, endIndex + 1))))

\* the second half of extractJson: from the first { or [ to the last } or ]
BraceSpan(text) ==
    LET startIndex == StartIndex(IndexOf(text, "{"), IndexOf(text, "["))
        endIndex == Max(LastIndexOf(text, "}"), LastIndexOf(text, "]"))
    IN IF startIndex = -1 THEN Null
       ELSE IF endIndex = -1 \/ endIndex < startIndex THEN Null
       ELSE Str(Trim(Substring(text, startIndex, endIndex + 1)))

extractJson_BracesFirst(text) ==
    IF BraceSpan(text) # Null THEN BraceSpan(text)
    ELSE LET codeBlockMatch == CodeBlockMatch(text) IN
         IF codeBlockMatch.found /\ codeBlockMatch.group # <<>>
           THEN Str(Trim(codeBlockMatch.group))
           ELSE Null

extractJson(text) ==
    LET codeBlockMatch == CodeBlockMatch(text) IN
    IF codeBlockMatch.found /\ codeBlockMatch.group # <<>>
      THEN Str(Trim(codeBlockMatch.group))
      ELSE BraceSpan(text)

----------------------------------------------------------------------------
(* The gateway operations as a state machine *)

RetryableOps ==
    { [kind |-> "retryable", provider |-> "none", hasKey |-> FALSE, hasModel |-> FALSE,
       envKey |-> FALSE, retries |-> r, initialDelay |-> d] :
         r \in 0..MaxRetries, d \in {PlacementInitialDelay, DefaultInitialDelay} }

TextOps(kind, retries, initialDelay) ==
    { [kind |-> kind, provider |-> p, hasKey |-> k, hasModel |-> m,
       envKey |-> e, retries |-> retries, initialDelay |-> initialDelay] :
         p \in TextAIProvider, k \in BOOLEAN, m \in BOOLEAN, e \in BOOLEAN }

VisionOps ==
    { [kind |-> "vision", provider |-> "Gemini", hasKey |-> FALSE, hasModel |-> FALSE,
       envKey |-> e, retries |-> DefaultRetries, initialDelay |-> DefaultInitialDelay] :
         e \in BOOLEAN }

ImageOps ==
    { [kind |-> "image", provider |-> p, hasKey |-> FALSE, hasModel |-> FALSE,
       envKey |-> e, retries |-> DefaultRetries, initialDelay |-> DefaultInitialDelay] :
         p \in AIProvider, e \in BOOLEAN }

\* the catch block of retryableAIOperation, on error e, the errors caught
\* before being es
CatchFrom(e, es, out) ==
    /\ errs' = Append(es, e)
    /\ IF IsRateLimitError(e)
         THEN pc' = "backoff" /\ outcome' = out
         ELSE pc' = "done" /\ outcome' = Thrown(e)

\* the catch block of the running operation
Catch(e) == CatchFrom(e, errs, outcome)

\* retryableAIOperation from the loop test with index idx to its next await,
\* att attempts and calls network requests having been made and es caught
RunLoopFrom(o, idx, att, calls, es, st, out) ==
    /\ i' = idx
    /\ IF ~LoopContinues(idx, o.retries)
         THEN /\ pc' = "done"
              /\ outcome' = Thrown(ExhaustedError(es))
              /\ net' = NoNet
              /\ attempts' = att /\ netCalls' = calls /\ errs' = es /\ settled' = st
         ELSE LET s == ApiCallStart(o) IN
              /\ attempts' = att + 1
              /\ IF s.err # NoErr
                   THEN /\ settled' = Thrown(s.err)
                        /\ net' = NoNet
                        /\ netCalls' = calls
                        /\ CatchFrom(s.err, es, out)
                   ELSE /\ pc' = "inflight"
                        /\ net' = s.net
                        /\ netCalls' = calls + (IF s.net.via = "apiCall" THEN 0 ELSE 1)
                        /\ errs' = es /\ outcome' = out /\ settled' = st

\* the loop of the running operation
RunLoop(o, idx) == RunLoopFrom(o, idx, attempts, netCalls, errs, settled, outcome)

\* a new call of retryableAIOperation: its locals start afresh
StartOp(o) ==
    /\ RunLoopFrom(o, 0, 0, 0, <<>>, NoOutcome, NoOutcome)
    /\ waits' = <<>>
    /\ n429' = 0

\* the operation ends before any await
EndAtOnce(o, res) ==
    /\ pc' = "done"
    /\ outcome' = res
    /\ UNCHANGED <<i, attempts, errs, settled, net, netCalls>>

\* the operation awaits fetchImageAsBase64, outside retryableAIOperation
FetchImage ==
    /\ pc' = "pre"
    /\ net' = FetchWithTimeout("image", ImageFetchTimeout)
    /\ netCalls' = netCalls + 1
    /\ UNCHANGED <<i, attempts, errs, settled, outcome>>

\* retryableAIOperation(apiCall, retries, initialDelay) with an arbitrary apiCall
RetryableAIOperation ==
    /\ pc = "idle"
    /\ \E o \in RetryableOps : op' = o /\ RunLoop(o, 0)
    /\ UNCHANGED <<waits, n429, jsonVars, appVars, batchVars, placeVars>>

\* generateImageBriefsAndAltsBatch: the request of one batch
GenerateBriefs ==
    /\ pc = "idle"
    /\ \E o \in TextOps("briefs", DefaultRetries, DefaultInitialDelay) :
          op' = o /\ RunLoop(o, 0)
    /\ UNCHANGED <<waits, n429, jsonVars, appVars, batchVars, placeVars>>

\* getContentWithImagePlaceholder: the placement question
AskPlacement ==
    /\ pc = "idle"
    /\ \E o \in TextOps("placement", PlacementRetries, PlacementInitialDelay) :
          op' = o /\ RunLoop(o, 0)
    /\ UNCHANGED <<waits, n429, jsonVars, appVars, batchVars, placeVars>>

\* analyzeImageWithVision
AnalyzeImageWithVision ==
    /\ pc = "idle"
    /\ \E o \in VisionOps :
          /\ op' = o
          /\ IF GeminiClientError(o) # NoErr
               THEN EndAtOnce(o, Thrown(GeminiClientError(o)))
               ELSE FetchImage
    /\ UNCHANGED <<waits, n429, jsonVars, appVars, batchVars, placeVars>>

ImageBranch_DallE3(provider) ==
    CASE provider = "Gemini" -> "imagen"
      [] provider \in {"Pollinations", "DallE3"} -> "fetch"
      [] OTHER -> "notImplemented"

ImageBranch_FetchByDefault(provider) ==
    IF provider = "Gemini" THEN "imagen" ELSE "fetch"

\* the branch of generateImage's if / else if / else taken for provider
ImageBranch(provider) ==
    CASE provider = "Gemini" -> "imagen"
      [] provider = "Pollinations" -> "fetch"
      [] OTHER -> "notImplemented"

\* new Error(`${provider} is not implemented in this version.`)
NotImplementedError(provider) == Err("NotImplemented", 0, {provider})

\* generateImage
GenerateImage ==
    /\ pc = "idle"
    /\ \E o \in ImageOps :
          /\ op' = o
          /\ CASE ImageBranch(o.provider) = "imagen" ->
                    IF GeminiClientError(o) # NoErr
                      THEN EndAtOnce(o, Thrown(GeminiClientError(o)))
                      ELSE RunLoop(o, 0)
               [] ImageBranch(o.provider) = "fetch" -> FetchImage
               [] OTHER -> EndAtOnce(o, Thrown(NotImplementedError(o.provider)))
    /\ UNCHANGED <<waits, n429, jsonVars, appVars, batchVars, placeVars>>

\* the awaited call settled as s
Settled(s) ==
    IF pc = "pre"
      THEN IF s.type = "error"
             THEN /\ pc' = "done" /\ outcome' = s /\ net' = NoNet
                  /\ UNCHANGED <<i, attempts, errs, settled, netCalls>>
             ELSE IF op.kind = "image"
               THEN /\ pc' = "done" /\ outcome' = s /\ net' = NoNet
                    /\ UNCHANGED <<i, attempts, errs, settled, netCalls>>
               ELSE RunLoop(op, 0)
      ELSE /\ settled' = s
           /\ net' = NoNet
           /\ UNCHANGED <<i, attempts, netCalls>>
           /\ IF s.type = "value"
                THEN pc' = "done" /\ outcome' = Finish(op, s.val) /\ errs' = errs
                ELSE Catch(s.err)

\* the awaited party answers
NetResponds ==
    /\ pc \in {"pre", "inflight"}
    /\ \E r \in Responses(net) :
          /\ n429' = n429 + (IF r.status = 429 THEN 1 ELSE 0)
          /\ Settled(Settle(net, r))
    /\ UNCHANGED <<op, waits, jsonVars, appVars, batchVars, placeVars>>

\* the abort timer of fetchWithTimeout fires before any answer
TimeoutFires ==
    /\ pc \in {"pre", "inflight"}
    /\ net.timeout > 0
    /\ Settled(Thrown(TimeoutError))
    /\ UNCHANGED <<op, waits, n429, jsonVars, appVars, batchVars, placeVars>>

\* await delay(waitTime) is over: i++ and the loop goes on
BackoffElapsed ==
    /\ pc = "backoff"
    /\ waits' = Append(waits, WaitTime(op.initialDelay, i))
    /\ RunLoop(op, i + 1)
    /\ UNCHANGED <<op, n429, jsonVars, appVars, batchVars, placeVars>>

GwInit ==
    /\ pc = "idle" /\ op = NoOp /\ i = 0 /\ attempts = 0 /\ waits = <<>>
    /\ errs = <<>> /\ settled = NoOutcome /\ outcome = NoOutcome
    /\ net = NoNet /\ netCalls = 0 /\ n429 = 0

JsonIdle == jtext = <<>> /\ jn = 0 /\ jpc = "off" /\ jresult = [null |-> TRUE, str |-> <<>>]

BatchIdle ==
    /\ bpc = "off" /\ nPosts = 0 /\ bi = 0 /\ allResults = <<>> /\ progress = <<>>
    /\ bLog = <<>> /\ bCalls = <<>> /\ bOutcome = NoOutcome

PlaceIdle ==
    /\ ppc = "off" /\ postContent = <<>> /\ pReply = [digits |-> FALSE, num |-> 0]
    /\ pRoute = "none"
    /\ pOutcome = [type |-> "none", content |-> <<>>, err |-> NoErr]

\* how a generateImage call ended: "none" before any call for the provider,
\* "value" or the class of the error thrown; the network requests it issued;
\* the providers its error message names
ImageEnd(result, calls, names) == [result |-> result, calls |-> calls, names |-> names]

ImageIdle == imgLog = [p \in AIProvider |-> ImageEnd("none", 0, {})]

\* App before any crawl: the initial values of its useState hooks
AppStart ==
    /\ appState = "Configuration" /\ config = "null" /\ posts = <<>>
    /\ crawlProgress = [current |-> 0, total |-> 0]
    /\ total = 0 /\ allPosts = <<>> /\ currentPage = 1 /\ alertMsg = "" /\ wpLog = <<>>

CrawlIdle == cpc = "off" /\ AppStart

\* before a processing pass is set up
PipeStart ==
    /\ imgProvider = "Gemini" /\ backlog = <<>> /\ jobs = <<>> /\ cur = 0
    /\ cmsPosts = <<>> /\ mediaAlt = {} /\ stageLog = <<>>

PipeIdle == rpc = "off" /\ PipeStart

\* the providers as KEY_HOLDER_MAP and the form know them
Providers == AIProvider \cup TextAIProvider

KeyHolders == {"Google Gemini", "OpenAI", "Stability AI", "OpenRouter", "Groq"}

\* the keys a user may type; "" is the empty input
Secrets == {"", "k1", "k2"}

NoConfig == [imageKey |-> "none", analysisKey |-> "none"]

\* ConfigurationStep before any input: the initial values of its useState hooks
FormStart ==
    /\ imageProvider = "Gemini" /\ analysisProvider = "Gemini"
    /\ apiKeys = [h \in KeyHolders |-> ""]
    /\ submitted = NoConfig /\ formAlert = ""

FormIdle == kpc = "off" /\ FormStart

AppIdle == ImageIdle /\ CrawlIdle /\ PipeIdle /\ FormIdle

Init == GwInit /\ JsonIdle /\ BatchIdle /\ PlaceIdle /\ AppIdle

Next ==
    \/ RetryableAIOperation
    \/ GenerateBriefs
    \/ AskPlacement
    \/ AnalyzeImageWithVision
    \/ GenerateImage
    \/ NetResponds
    \/ TimeoutFires
    \/ BackoffElapsed

Spec == Init /\ [][Next]_vars

----------------------------------------------------------------------------
(* Properties of the gateway *)

RECURSIVE SumSeq(_)
SumSeq(q) == IF q = <<>> THEN 0 ELSE q[1] + SumSeq(Tail(q))

\* a failure that signals rate limiting: HTTP 429 or RESOURCE_EXHAUSTED
RateLimitSignal(e) ==
    e.status = 429 \/ "429" \in e.marks \/ "RESOURCE_EXHAUSTED" \in e.marks

InRetry == op.kind \in {"retryable", "briefs", "placement", "vision", "image"}

\* C1: an error caught by retryableAIOperation that is not a rate-limit failure
\* ends the operation at once: it is the last error caught, no further attempt
\* and no further wait follows it, and the caller gets that same error.
C1_OnlyRateLimitIsRetried ==
    \A n \in 1..Len(errs) :
        ~RateLimitSignal(errs[n]) =>
            /\ n = Len(errs)
            /\ pc = "done"
            /\ outcome = Thrown(errs[n])
            /\ attempts = n
            /\ Len(waits) = n - 1

C1_Witness ==
    /\ pc = "done" /\ op.kind = "retryable"
    /\ Len(errs) = 2
    /\ RateLimitSignal(errs[1]) /\ ~RateLimitSignal(errs[2])
    /\ outcome = Thrown(errs[2])

\* C2: when the first k attempts fail with a rate-limit error and attempt k+1
\* succeeds (k < retries), exactly k+1 attempts were made, the j-th wait is
\* initialDelay * 2^(j-1), the waits add up to initialDelay * (2^k - 1), and
\* the value of the successful attempt is what retryableAIOperation returns.
C2_BackoffSchedule ==
    (pc = "done" /\ settled.type = "value") =>
        LET k == Len(errs) IN
        /\ k < op.retries
        /\ \A n \in 1..k : RateLimitSignal(errs[n])
        /\ attempts = k + 1
        /\ Len(waits) = k
        /\ \A j \in 1..k : waits[j] = op.initialDelay * Pow2(j - 1)
        /\ SumSeq(waits) = op.initialDelay * (Pow2(k) - 1)
        /\ (op.kind \in {"retryable", "briefs", "placement"} => outcome = Value(settled.val))

C2_Witness ==
    /\ pc = "done" /\ settled.type = "value" /\ op.kind = "retryable"
    /\ Len(errs) = 2 /\ attempts = 3
    /\ SumSeq(waits) = op.initialDelay * (1 + 2)
    /\ outcome = Value("v")

\* C3: retryableAIOperation never makes more than "retries" attempts; a
\* rate-limit failure reaches the caller only after all "retries" attempts
\* were used, and then as an error, never as a value.
C3_AttemptsBounded ==
    /\ attempts <= op.retries
    /\ (pc = "done" /\ outcome.type = "error" /\ RateLimitSignal(outcome.err)) =>
            /\ attempts = op.retries
            /\ Len(errs) = op.retries
            /\ outcome.err.cls = "Exhausted"
    /\ (pc = "done" /\ InRetry /\ Len(errs) = op.retries /\ settled.type # "value") =>
            outcome.type = "error"

C3_Witness ==
    /\ pc = "done" /\ op.retries = DefaultRetries /\ attempts = DefaultRetries
    /\ outcome.type = "error" /\ outcome.err.cls = "Exhausted"
    /\ \A n \in 1..Len(errs) : RateLimitSignal(errs[n])

\* C4: every gateway operation that reaches the network retries a 429 with
\* backoff before surfacing it: an operation that ends in an error after
\* receiving a single 429 response has waited at least once.
C4_First429IsRetried ==
    (pc = "done" /\ op.kind # "retryable" /\ outcome.type = "error" /\ n429 = 1) =>
        Len(waits) >= 1

\* C5: every network call issued through the gateway has an abort timer armed,
\* so a backend that never answers ends the call with a timeout error.
C5_EveryNetworkCallTimed ==
    (pc \in {"pre", "inflight"} /\ net.via \in {"fetch", "sdk"}) => net.timeout > 0

OpenAICompatible == {"OpenAI", "Groq", "OpenRouter"}

\* C6 as stated: for OpenAI, Groq and OpenRouter, generateText without a model
\* name fails with a validation error and no network call is made.
C6_NoModelNoCall_AllChatProviders ==
    (op.kind = "placement" /\ op.provider \in OpenAICompatible /\ ~op.hasModel) =>
        /\ netCalls = 0
        /\ pc = "done" /\ outcome.type = "error" /\ outcome.err.cls = "Validation"

\* C6 amended: for Groq and OpenRouter, generateText without a model name fails
\* with a validation error and no network call is made.
C6_NoModelNoCall ==
    (op.kind = "placement" /\ op.provider \in {"Groq", "OpenRouter"} /\ ~op.hasModel) =>
        /\ netCalls = 0
        /\ pc = "done" /\ outcome.type = "error" /\ outcome.err.cls = "Validation"

C6_Witness ==
    /\ op.kind = "placement" /\ op.provider = "Groq" /\ op.hasKey /\ ~op.hasModel
    /\ pc = "done" /\ netCalls = 0
    /\ outcome = Thrown(Err("Validation", 0, {"model name is required"}))

\* C7: for every text provider, a value generateText hands to its caller is a
\* non-empty text; a reply with no usable body ends in an error instead.
C7_NeverEmptyText ==
    (op.kind = "placement" /\ settled.type = "value") => settled.val \notin {"", "undefined"}

\* C33: when every one of the "retries" attempts of retryableAIOperation
\* failed with a rate-limit error, a wait followed each of them, the last
\* included: "retries" waits adding up to initialDelay * (2^retries - 1),
\* 14000 ms with the defaults; the error then raised is not the last failure
\* itself but a new error that carries the message of the last failure.
C33_WaitAfterLastAttempt ==
    (/\ pc = "done" /\ InRetry /\ op.retries >= 1
     /\ Len(errs) = op.retries
     /\ \A n \in 1..Len(errs) : RateLimitSignal(errs[n])) =>
        /\ attempts = op.retries
        /\ Len(waits) = op.retries
        /\ waits[op.retries] = op.initialDelay * Pow2(op.retries - 1)
        /\ SumSeq(waits) = op.initialDelay * (Pow2(op.retries) - 1)
        /\ (op.retries = DefaultRetries /\ op.initialDelay = DefaultInitialDelay) =>
               SumSeq(waits) = 14000
        /\ outcome.type = "error"
        /\ outcome.err # errs[Len(errs)]
        /\ outcome.err.cls = "Exhausted"
        /\ outcome.err.marks = errs[Len(errs)].marks

C33_Witness ==
    /\ pc = "done" /\ op.kind = "briefs" /\ op.provider = "Groq"
    /\ Len(errs) = DefaultRetries /\ errs[DefaultRetries] = FetchError(429)
    /\ waits = <<2000, 4000, 8000>>
    /\ outcome.type = "error" /\ outcome.err.cls = "Exhausted"

\* the running operation is one served by Gemini: generateJsonText or
\* generateText with the Gemini provider, analyzeImageWithVision, or
\* generateImage with the Gemini provider
GeminiOp ==
    /\ op.kind \in {"briefs", "placement", "vision", "image"}
    /\ op.provider = "Gemini"

\* C38: an operation served by Gemini fails with the configuration error,
\* without any network call and without any wait, when the environment holds
\* no API key, whether or not the configuration passed to it carries a key;
\* with the environment key it sends its request whether or not the
\* configuration carries a key, and never fails for a missing key.
C38_GeminiUsesEnvironmentKeyOnly ==
    /\ (GeminiOp /\ ~op.envKey) =>
          /\ pc = "done"
          /\ outcome = Thrown(Err("Config", 0, {"API Key is not configured"}))
          /\ netCalls = 0 /\ net = NoNet /\ waits = <<>>
    /\ (GeminiOp /\ op.envKey) =>
          /\ netCalls >= 1
          /\ (pc = "done" /\ outcome.type = "error") =>
                 outcome.err.cls \notin {"Config", "Validation"}

\* generateText for Gemini with a key in the configuration and none in the
\* environment
C38_Witness ==
    /\ op.kind = "placement" /\ op.provider = "Gemini" /\ op.hasKey /\ ~op.envKey
    /\ pc = "done" /\ netCalls = 0 /\ attempts = 1
    /\ outcome.type = "error" /\ outcome.err.cls = "Config"

----------------------------------------------------------------------------
(* extractJson applied to bounded texts *)

Pieces ==
    { <<Tick, Tick, Tick>>, <<"{">>, <<"}">>, <<"[">>, <<"]">>, <<" ">>, <<"a">>,
      <<"j", "s", "o", "n">> }

JsonInit == jtext = <<>> /\ jn = 0 /\ jpc = "input" /\ jresult = Null

\* the text grows by one piece
AppendPiece ==
    /\ jpc = "input"
    /\ jn < MaxPieces
    /\ \E piece \in Pieces : jtext' = jtext \o piece
    /\ jn' = jn + 1
    /\ UNCHANGED <<jpc, jresult, gwVars, appVars, batchVars, placeVars>>

\* extractJson(text)
ExtractJson ==
    /\ jpc = "input"
    /\ jresult' = extractJson(jtext)
    /\ jpc' = "done"
    /\ UNCHANGED <<jtext, jn, gwVars, appVars, batchVars, placeVars>>

InitJson == GwInit /\ JsonInit /\ BatchIdle /\ PlaceIdle /\ AppIdle

NextJson == AppendPiece \/ ExtractJson

SpecJson == InitJson /\ [][NextJson]_vars

----------------------------------------------------------------------------
(* Properties of extractJson.  The fenced blocks of a text are read off it  *)
(* directly: its fences from left to right, paired first with second, third *)
(* with fourth, ...; the content of a block is what lies between its fences *)
(* without a leading json tag and without surrounding whitespace.           *)

RECURSIVE FenceTokens(_, _)
FenceTokens(text, p) ==
    IF p > Len(text) - 3 THEN <<>>
    ELSE IF FenceAt(text, p) THEN <<p>> \o FenceTokens(text, p + 3)
    ELSE FenceTokens(text, p + 1)

StripTag(q) ==
    IF Len(q) >= 4 /\ SubSeq(q, 1, 4) = <<"j", "s", "o", "n">> THEN SubSeq(q, 5, Len(q)) ELSE q

NumBlocks(text) == Len(FenceTokens(text, 0)) \div 2

BlockContent(text, k) ==
    LET f == FenceTokens(text, 0) IN
    Trim(StripTag(Substring(text, f[2 * k - 1] + 3, f[2 * k])))

HasNonEmptyBlock(text) == \E k \in 1..NumBlocks(text) : BlockContent(text, k) # <<>>

FirstNonEmptyBlock(text) ==
    CHOOSE k \in 1..NumBlocks(text) :
        BlockContent(text, k) # <<>> /\ \A h \in 1..(k - 1) : BlockContent(text, h) = <<>>

Openers(text) == {p \in 1..Len(text) : text[p] \in {"{", "["}}
Closers(text) == {p \in 1..Len(text) : text[p] \in {"}", "]"}}
Least(S) == CHOOSE x \in S : \A y \in S : x <= y
Greatest(S) == CHOOSE x \in S : \A y \in S : x >= y

HasBraceSpan(text) == \E p \in Openers(text) : \E q \in Closers(text) : p < q

Closer(c) == IF c = "{" THEN "}" ELSE "]"

\* from the first { or [ to the last } or ], whichever closer that is
ExpectedSpan(text) ==
    IF Openers(text) = {} \/ Closers(text) = {} THEN Null
    ELSE IF Greatest(Closers(text)) < Least(Openers(text)) THEN Null
    ELSE Str(SubSeq(text, Least(Openers(text)), Greatest(Closers(text))))

\* C8: a text with neither a fenced block of non-empty content nor a span from
\* an opening { or [ to a later closing } or ] yields the no-JSON-found value.
C8_NoJsonFoundIsNull ==
    (jpc = "done" /\ ~HasNonEmptyBlock(jtext) /\ ~HasBraceSpan(jtext)) => jresult = Null

C8_Witness ==
    /\ jpc = "done" /\ jresult = Null
    /\ NumBlocks(jtext) = 1
    /\ Openers(jtext) # {} /\ Closers(jtext) # {}
    /\ ~HasBraceSpan(jtext)

\* C9 as stated: when the text contains a fenced block with non-empty content,
\* extractJson returns the trimmed content of the first such block.
C9_FirstNonEmptyBlockWins ==
    (jpc = "done" /\ HasNonEmptyBlock(jtext)) =>
        jresult = Str(BlockContent(jtext, FirstNonEmptyBlock(jtext)))

\* C9 amended: when the first fenced block of the text has non-empty content,
\* extractJson returns that content, trimmed, whatever braces surround the
\* block; when the text has no fenced block or its first block is empty, the
\* brace-span rule decides, also when a later block has content.
C9_FirstBlockWins ==
    jpc = "done" =>
        IF NumBlocks(jtext) >= 1 /\ BlockContent(jtext, 1) # <<>>
          THEN jresult = Str(BlockContent(jtext, 1))
          ELSE jresult = ExpectedSpan(jtext)

C9_Witness ==
    /\ jpc = "done"
    /\ NumBlocks(jtext) >= 1 /\ BlockContent(jtext, 1) = <<"a">>
    /\ \E p \in Openers(jtext) : p < FenceTokens(jtext, 0)[1] + 1
    /\ \E q \in Closers(jtext) : q > FenceTokens(jtext, 0)[2] + 1
    /\ jresult = Str(<<"a">>)

\* C10 as stated: without a fenced block, a returned span starts at the first
\* { or [ and ends at the last closer that corresponds to that opener.
C10_SpanEndsAtMatchingCloser ==
    (jpc = "done" /\ NumBlocks(jtext) = 0 /\ jresult # Null) =>
        LET first == Least(Openers(jtext))
            same == {q \in Closers(jtext) : jtext[q] = Closer(jtext[first])}
        IN /\ same # {}
           /\ jresult = Str(SubSeq(jtext, first, Greatest(same)))

\* C10 amended: without a fenced block, the returned span starts at the first
\* { or [ and ends at the last } or ] of the text, whichever kind it is; there
\* is no span (null) when the text has no opener or no closer after it.
C10_SpanFirstOpenerLastCloser ==
    (jpc = "done" /\ NumBlocks(jtext) = 0) =>
        /\ jresult = ExpectedSpan(jtext)
        /\ jresult # Null =>
              /\ jresult.str[1] \in {"{", "["}
              /\ jresult.str[Len(jresult.str)] \in {"}", "]"}

C10_Witness ==
    /\ jpc = "done" /\ NumBlocks(jtext) = 0
    /\ jresult = Str(<<"[", "a", "}">>)

----------------------------------------------------------------------------
(* generateImageBriefsAndAltsBatch.  The posts are numbered 0..nPosts-1 as  *)
(* in the posts array; a batch is the slice [first, first + count).         *)

BATCH_SIZE == 20
DELAY_BETWEEN_BATCHES == 1000

MaxBatches == 3

\* posts.length: every number of posts that fills its last batch with one
\* post or with BATCH_SIZE posts, and the empty list
PostCounts ==
    {0} \cup { BATCH_SIZE * (b - 1) + d : b \in 1..MaxBatches, d \in {1, BATCH_SIZE} }

\* posts.slice(first, first + BATCH_SIZE).length
SliceCount(first, n) == Min(first + BATCH_SIZE, n) - first

\* JSON.parse(jsonString)
JsonParse(q) ==
    IF q = <<"[", "a", "]">> THEN "array"
    ELSE IF q = <<"{", "a", "}">> THEN "object"
    ELSE "SyntaxError"

\* the texts a provider may answer the brief request with: a bare array, an
\* array in a fenced block, prose without JSON, a span that is no JSON, an object
ReplyTexts ==
    { <<"[", "a", "]">>,
      <<Tick, Tick, Tick, " ", "[", "a", "]", Tick, Tick, Tick>>,
      <<"a">>,
      <<"[", "a", "}">>,
      <<"{", "a", "}">> }

\* A reply is its text and whether the entries it lists carry every field of
\* briefSchema.required.  Only Gemini is handed briefSchema (responseSchema);
\* for the other providers generateJsonText drops it.
BatchReplies(provider, out) ==
    IF out.type = "value" /\ out.val = "text"
      THEN { r \in [text : ReplyTexts, entries : {"all", "missing"}] :
               /\ r.entries = "missing" => JsonParse(extractJson(r.text).str) = "array"
               /\ provider = "Gemini" => (r.entries = "all" /\ r.text # <<"{", "a", "}">>) }
      ELSE { [text |-> <<>>, entries |-> "all"] }

\* Error("The AI provider (${provider}) returned a response that did not contain valid JSON.")
NoJsonError(provider) == Err("Error", 0, {provider, "did not contain valid JSON"})
\* Error("The AI provider (${provider}) returned malformed JSON, even after cleanup.")
MalformedJsonError(provider) == Err("Error", 0, {provider, "malformed JSON"})
\* the TypeError of a property read on undefined or of spreading a non-iterable
TypeError == Err("TypeError", 0, {})

BatchResult(e, entries, shape) == [err |-> e, entries |-> entries, shape |-> shape]

CatchBatch_Swallow(provider, error) == NoErr

\* the catch block: a SyntaxError is replaced, any other error is rethrown
CatchBatch(provider, error) ==
    IF error.cls = "SyntaxError" THEN MalformedJsonError(provider) ELSE error

\* what the try block finds after retryableAIOperation settled as out, the
\* reply being the text behind a returned value: the thrown error, undefined,
\* no JSON (extractJson gave null or ""), or what JSON.parse makes of it
ReplyShape(out, reply) ==
    IF out.type = "error" THEN "error"
    ELSE IF out.val = "undefined" THEN "undefined"
    ELSE
      LET responseText == reply.text
          jsonString == extractJson(responseText)
      IN IF jsonString = Null \/ jsonString.str = <<>> THEN "noJson"
         ELSE JsonParse(jsonString.str)

\* the rest of the try block and the catch block, by what the try block
\* finds: text.match on undefined and the spread of a non-iterable throw a
\* TypeError
TryBatchOn(provider, out, reply, shape) ==
    CASE shape = "error" -> BatchResult(CatchBatch(provider, out.err), "none", shape)
      [] shape = "undefined" -> BatchResult(CatchBatch(provider, TypeError), "none", shape)
      [] shape = "noJson" ->
           BatchResult(CatchBatch(provider, NoJsonError(provider)), "none", shape)
      [] shape = "SyntaxError" ->
           BatchResult(CatchBatch(provider, Err("SyntaxError", 0, {})), "none", shape)
      [] shape = "object" -> BatchResult(CatchBatch(provider, TypeError), "none", shape)
      [] OTHER -> BatchResult(NoErr, reply.entries, shape)

TryBatch_Salvage(provider, out, reply) ==
    BatchResult(NoErr, reply.entries, ReplyShape(out, reply))

\* the try block from the settling of retryableAIOperation on, and the catch block
TryBatch(provider, out, reply) ==
    TryBatchOn(provider, out, reply, ReplyShape(out, reply))

LogEntry(ev, first, count) == [ev |-> ev, first |-> first, count |-> count]

\* a gateway operation returned: its locals are gone
GatewayReturns ==
    /\ pc' = "idle" /\ i' = 0 /\ attempts' = 0 /\ waits' = <<>> /\ errs' = <<>>
    /\ settled' = NoOutcome /\ outcome' = NoOutcome /\ net' = NoNet
    /\ netCalls' = 0 /\ n429' = 0

\* the loop body up to "await retryableAIOperation(...)" for the batch at first
SubmitBatch(o, first, n, log) ==
    /\ bpc' = "request"
    /\ bi' = first
    /\ bLog' = Append(log, LogEntry("request", first, SliceCount(first, n)))
    /\ StartOp(o)

NextIndex_Single(first) == first + 1

\* i += BATCH_SIZE
NextIndex(first) == first + BATCH_SIZE

DelayNeeded_Never(first, n) == FALSE

\* if (i + BATCH_SIZE < posts.length) await delay(DELAY_BETWEEN_BATCHES)
DelayNeeded(first, n) == first + BATCH_SIZE < n

Processed_Unclamped(first, n) == first + BATCH_SIZE

\* Math.min(i + BATCH_SIZE, posts.length), the first argument of onProgress
Processed(first, n) == Min(first + BATCH_SIZE, n)

\* generateImageBriefsAndAltsBatch(posts, analysisConfig, onProgress) up to its
\* first await
GenerateImageBriefsAndAltsBatch ==
    /\ bpc = "idle" /\ pc = "idle"
    /\ \E n \in PostCounts, o \in TextOps("briefs", DefaultRetries, DefaultInitialDelay) :
          /\ nPosts' = n
          /\ op' = o
          /\ progress' = <<<<0, n>>>>
          /\ IF 0 < n
               THEN /\ SubmitBatch(o, 0, n, bLog)
                    /\ bOutcome' = bOutcome
               ELSE /\ bpc' = "done"
                    /\ bOutcome' = Value("allResults")
                    /\ UNCHANGED <<bi, bLog, gwVars>>
    /\ UNCHANGED <<allResults, bCalls, jsonVars, appVars, placeVars>>

\* the request of the batch settled: the rest of the try block, the catch
\* block, and the loop up to its next await or to the return
BatchSettles ==
    /\ bpc = "request" /\ pc = "done"
    /\ \E reply \in BatchReplies(op.provider, outcome) :
       \E res \in {TryBatch(op.provider, outcome, reply)} :
          LET count == SliceCount(bi, nPosts)
              accepted == Append(bLog, LogEntry("accepted", bi, count))
          IN
          /\ bCalls' = Append(bCalls, [calls |-> netCalls, limited |-> n429,
                                        got |-> res.shape])
          /\ IF res.err # NoErr
               THEN /\ bpc' = "done"
                    /\ bOutcome' = Thrown(res.err)
                    /\ bLog' = Append(bLog, LogEntry("failed", bi, count))
                    /\ GatewayReturns
                    /\ UNCHANGED <<bi, allResults, progress>>
               ELSE /\ allResults' = Append(allResults,
                           [first |-> bi, count |-> count, entries |-> res.entries])
                    /\ progress' = Append(progress, <<Processed(bi, nPosts), nPosts>>)
                    /\ IF DelayNeeded(bi, nPosts)
                         THEN /\ bpc' = "delay" /\ bi' = bi /\ bOutcome' = bOutcome
                              /\ bLog' = accepted
                              /\ GatewayReturns
                         ELSE IF NextIndex(bi) < nPosts
                           THEN /\ SubmitBatch(op, NextIndex(bi), nPosts, accepted)
                                /\ bOutcome' = bOutcome
                           ELSE /\ bpc' = "done" /\ bi' = NextIndex(bi)
                                /\ bOutcome' = Value("allResults")
                                /\ bLog' = accepted
                                /\ GatewayReturns
    /\ UNCHANGED <<op, nPosts, jsonVars, appVars, placeVars>>

\* await delay(DELAY_BETWEEN_BATCHES) is over: i += BATCH_SIZE, the loop test,
\* and the next batch or the return
BatchDelayElapsed ==
    /\ bpc = "delay" /\ pc = "idle"
    /\ LET delayed == Append(bLog, LogEntry("delay", bi, DELAY_BETWEEN_BATCHES)) IN
       IF NextIndex(bi) < nPosts
         THEN /\ SubmitBatch(op, NextIndex(bi), nPosts, delayed)
              /\ bOutcome' = bOutcome
         ELSE /\ bpc' = "done" /\ bi' = NextIndex(bi)
              /\ bOutcome' = Value("allResults")
              /\ bLog' = delayed
              /\ UNCHANGED gwVars
    /\ UNCHANGED <<op, nPosts, allResults, progress, bCalls, jsonVars, appVars, placeVars>>

BatchInit ==
    /\ bpc = "idle" /\ nPosts = 0 /\ bi = 0 /\ allResults = <<>> /\ progress = <<>>
    /\ bLog = <<>> /\ bCalls = <<>> /\ bOutcome = NoOutcome

InitBatch == GwInit /\ JsonIdle /\ BatchInit /\ PlaceIdle /\ AppIdle

NextBatch ==
    \/ GenerateImageBriefsAndAltsBatch
    \/ BatchSettles
    \/ BatchDelayElapsed
    \/ NetResponds
    \/ TimeoutFires
    \/ BackoffElapsed

SpecBatch == InitBatch /\ [][NextBatch]_vars

----------------------------------------------------------------------------
(* Properties of generateImageBriefsAndAltsBatch *)

CeilDiv(a, b) == (a + b - 1) \div b

Requests == SelectSeq(bLog, LAMBDA e : e.ev = "request")

RECURSIVE SumCalls(_)
SumCalls(q) == IF q = <<>> THEN 0 ELSE q[1].calls + SumCalls(Tail(q))

RECURSIVE SumLimited(_)
SumLimited(q) == IF q = <<>> THEN 0 ELSE q[1].limited + SumLimited(Tail(q))

Returned == bpc = "done" /\ bOutcome.type = "value"

\* C11 as stated: a run of generateImageBriefsAndAltsBatch over N posts that
\* returns has made exactly one network call per batch, ceil(N / 20) in all.
C11_OneNetworkCallPerBatch ==
    Returned =>
        /\ \A k \in 1..Len(bCalls) : bCalls[k].calls = 1
        /\ SumCalls(bCalls) = CeilDiv(nPosts, BATCH_SIZE)

\* C11 amended: the batches are the consecutive slices of at most 20 posts and
\* each is submitted as one request through retryableAIOperation; an accepted
\* batch has cost one network call plus one for each 429 answer it received,
\* at most 3; a run that returns has submitted ceil(N / 20) batches and made
\* ceil(N / 20) network calls plus one per 429 answer.
C11_OneRequestPerBatch ==
    /\ \A k \in 1..Len(Requests) :
          /\ Requests[k].first = BATCH_SIZE * (k - 1)
          /\ Requests[k].count = Min(BATCH_SIZE, nPosts - BATCH_SIZE * (k - 1))
          /\ Requests[k].count >= 1
    /\ Len(bCalls) <= Len(Requests) /\ Len(Requests) <= Len(bCalls) + 1
    /\ \A k \in 1..Len(allResults) :
          /\ bCalls[k].calls = 1 + bCalls[k].limited
          /\ bCalls[k].calls <= DefaultRetries
    /\ Returned =>
          /\ Len(Requests) = CeilDiv(nPosts, BATCH_SIZE)
          /\ Len(allResults) = CeilDiv(nPosts, BATCH_SIZE)
          /\ SumCalls(bCalls) = CeilDiv(nPosts, BATCH_SIZE) + SumLimited(bCalls)

C11_Witness ==
    /\ Returned /\ nPosts = 2 * BATCH_SIZE + 1
    /\ Len(Requests) = 3
    /\ bCalls = << [calls |-> 1, limited |-> 0, got |-> "array"],
                   [calls |-> 2, limited |-> 1, got |-> "array"],
                   [calls |-> 1, limited |-> 0, got |-> "array"] >>

\* C12: the batches are requested one after the other in the order of the
\* posts: a request other than the first directly follows the 1000 ms delay,
\* which directly follows the acceptance of the batch before it; at most one
\* request is unsettled at any time, and the network is awaited only for it.
C12_BatchesAreSequential ==
    /\ \A j \in 1..Len(bLog) :
          (bLog[j].ev = "request" /\ j > 1) =>
              /\ j > 2
              /\ bLog[j - 1] = LogEntry("delay", bLog[j].first - BATCH_SIZE, DELAY_BETWEEN_BATCHES)
              /\ bLog[j - 2].ev = "accepted"
              /\ bLog[j - 2].first = bLog[j].first - BATCH_SIZE
    /\ \A j, k \in 1..Len(Requests) : j < k => Requests[j].first < Requests[k].first
    /\ Len(Requests) - Len(bCalls) \in {0, 1}
    /\ (bpc # "off" /\ pc \in {"inflight", "backoff"}) =>
          (bpc = "request" /\ Len(Requests) = Len(bCalls) + 1)

C12_Witness ==
    /\ bpc = "request" /\ pc = "inflight" /\ nPosts = 2 * BATCH_SIZE + 1
    /\ bi = 2 * BATCH_SIZE
    /\ Len(Requests) = 3 /\ Len(allResults) = 2
    /\ bLog[Len(bLog) - 1].ev = "delay"

\* C13: when the request of a batch ends in an error, or what it returned is
\* not a JSON array, the run ends there with an error for the caller: nothing
\* of that batch is among the results, and no later batch is requested.
C13_FailedBatchYieldsNothing ==
    \A k \in 1..Len(bCalls) :
        bCalls[k].got # "array" =>
            /\ k = Len(bCalls) /\ Len(Requests) = k
            /\ bpc = "done" /\ bOutcome.type = "error"
            /\ bLog[Len(bLog)] = LogEntry("failed", Requests[k].first, Requests[k].count)
            /\ Len(allResults) = k - 1
            /\ \A c \in 1..Len(allResults) :
                  allResults[c].first + allResults[c].count <= Requests[k].first

C13_Witness ==
    /\ bpc = "done" /\ Len(bCalls) = 2 /\ Len(allResults) = 1
    /\ bCalls[2] = [calls |-> DefaultRetries, limited |-> DefaultRetries, got |-> "error"]
    /\ bOutcome.type = "error" /\ bOutcome.err.cls = "Exhausted"

\* C14: for every text provider, every entry of the results carries all the
\* fields postId, brief and altText.
C14_EveryEntryHasAllFields ==
    \A c \in 1..Len(allResults) : allResults[c].entries = "all"

NetworkFailures == {"FetchError", "Network", "Timeout", "ApiError", "Exhausted"}

\* C15: when what a batch request returned holds no JSON or is not a JSON
\* array, the error handed to the caller names the configured provider and
\* is none of the errors raised for a network or HTTP failure.
C15_MalformedErrorNamesProvider ==
    \A k \in 1..Len(bCalls) :
        bCalls[k].got \in {"undefined", "noJson", "SyntaxError", "object"} =>
            /\ bOutcome.type = "error"
            /\ op.provider \in bOutcome.err.marks
            /\ bOutcome.err.cls \notin NetworkFailures

Accepted == SelectSeq(bLog, LAMBDA e : e.ev = "accepted")

\* C31: onProgress is called with (0, N) when the run starts and then once
\* for each accepted batch, the k-th time with (min(20 * k, N), N); the
\* reported counts never decrease and never exceed N, the last report of a
\* run that returns is (N, N), and a batch that failed is not reported.
C31_ProgressFollowsAcceptedBatches ==
    bpc # "off" /\ bpc # "idle" =>
        /\ Len(progress) = 1 + Len(Accepted)
        /\ progress[1] = <<0, nPosts>>
        /\ \A k \in 1..Len(Accepted) :
              /\ progress[k + 1] = <<Min(BATCH_SIZE * k, nPosts), nPosts>>
              /\ progress[k][1] <= progress[k + 1][1]
        /\ \A k \in 1..Len(progress) : progress[k][1] <= nPosts
        /\ Returned => progress[Len(progress)] = <<nPosts, nPosts>>
        /\ (bpc = "done" /\ bOutcome.type = "error") =>
              /\ Len(progress) = Len(Requests)
              /\ progress[Len(progress)][1] = bLog[Len(bLog)].first

C31_Witness ==
    /\ bpc = "done" /\ bOutcome.type = "error" /\ nPosts = 2 * BATCH_SIZE + 1
    /\ progress = << <<0, nPosts>>, <<BATCH_SIZE, nPosts>>, <<2 * BATCH_SIZE, nPosts>> >>
    /\ bLog[Len(bLog)] = LogEntry("failed", 2 * BATCH_SIZE, 1)

\* C34: when a batch fails the whole call fails: the caller is handed the
\* error and not the results collected from the batches accepted before,
\* and the failed batch is the last one requested, also when posts are left
\* that no batch has covered.
C34_FailureDropsEarlierResults ==
    \A k \in 1..Len(bCalls) :
        bCalls[k].got # "array" =>
            /\ bpc = "done"
            /\ bOutcome.type = "error"
            /\ bOutcome.val # "allResults"
            /\ bOutcome.err # NoErr
            /\ \A j \in 1..Len(Requests) : Requests[j].first <= BATCH_SIZE * (k - 1)
            /\ \A j \in 1..Len(bLog) : bLog[j].ev = "failed" => j = Len(bLog)
            /\ Len(progress) = k

\* the second of three batches failed after the first was accepted
C34_Witness ==
    /\ bpc = "done" /\ nPosts = 2 * BATCH_SIZE + 1
    /\ Len(bCalls) = 2 /\ bCalls[1].got = "array" /\ bCalls[2].got = "noJson"
    /\ Len(allResults) = 1 /\ allResults[1].count = BATCH_SIZE
    /\ Len(Requests) = 2
    /\ bOutcome.type = "error"

----------------------------------------------------------------------------
(* insertPlaceholderHeuristically and getContentWithImagePlaceholder.  A     *)
(* content is the sequence of the nodes of its body in document order: a    *)
(* paragraph with the length of its trimmed text, another element, or a     *)
(* placement marker (the comment INSERT_IMAGE_HERE).                        *)

FewParagraphs == 3
AnalyzedParagraphs == 5
SignificantLength == 80
MinSignificant == 2

MaxNodes == 6

Paragraph(len) == [tag |-> "p", len |-> len]
Heading == [tag |-> "h2", len |-> 0]
Marker == [tag |-> "marker", len |-> 0]

\* p.textContent.trim().length, on both sides of the filter's threshold
ParagraphLengths == {SignificantLength, SignificantLength + 1}

Nodes == {Paragraph(len) : len \in ParagraphLengths} \cup {Heading, Marker}

Contents == UNION { [1..n -> Nodes] : n \in 0..MaxNodes }

\* querySelectorAll('p'): the positions of the paragraphs, in document order
RECURSIVE ParagraphsFrom(_, _)
ParagraphsFrom(content, k) ==
    IF k > Len(content) THEN <<>>
    ELSE IF content[k].tag = "p" THEN <<k>> \o ParagraphsFrom(content, k + 1)
    ELSE ParagraphsFrom(content, k + 1)

Paragraphs(content) == ParagraphsFrom(content, 1)

InsertAfter_Twice(content, k) ==
    SubSeq(content, 1, k) \o <<Marker, Marker>> \o SubSeq(content, k + 1, Len(content))

\* node.insertAdjacentHTML('afterend', placeholder) for the node at position k
InsertAfter(content, k) ==
    SubSeq(content, 1, k) \o <<Marker>> \o SubSeq(content, k + 1, Len(content))

\* doc.body.innerHTML = placeholder + doc.body.innerHTML
Prepend(content) == <<Marker>> \o content

HeuristicTargetIndex_First(n) == IF n > 1 THEN 0 ELSE -1

\* targetIndex of insertPlaceholderHeuristically, for n paragraphs
HeuristicTargetIndex(n) ==
    IF n > 2 THEN 1
    ELSE IF n > 1 THEN 0
    ELSE -1

\* insertPlaceholderHeuristically(postContent, placeholder); paragraphs[j] of
\* the source is paragraphs[j + 1] here
insertPlaceholderHeuristically(content) ==
    LET paragraphs == Paragraphs(content)
        targetIndex == HeuristicTargetIndex(Len(paragraphs))
    IN IF targetIndex # -1 /\ targetIndex < Len(paragraphs)
         THEN InsertAfter(content, paragraphs[targetIndex + 1])
       ELSE IF Len(paragraphs) > 0
         THEN InsertAfter(content, paragraphs[Len(paragraphs)])
       ELSE Prepend(content)

\* what getContentWithImagePlaceholder hands to its caller
PlaceNone == [type |-> "none", content |-> <<>>, err |-> NoErr]
Returns(content) == [type |-> "value", content |-> content, err |-> NoErr]

TooFew_Two(paragraphs) == Len(paragraphs) < 2

\* if (paragraphs.length < 3)
TooFew(paragraphs) == Len(paragraphs) < FewParagraphs

ParagraphsToAnalyze_Inclusive(content, paragraphs) ==
    { num \in 1..Min(AnalyzedParagraphs, Len(paragraphs)) :
        content[paragraphs[num]].len >= SignificantLength }

\* paragraphs.slice(0, 5).map(...).filter(p => p.text.length > 80): the
\* numbers (1-based) of the paragraphs sent to the AI
ParagraphsToAnalyze(content, paragraphs) ==
    { num \in 1..Min(AnalyzedParagraphs, Len(paragraphs)) :
        content[paragraphs[num]].len > SignificantLength }

\* The text the AI answers with, as far as the code reads it: whether it
\* holds a digit, and the number its first run of digits spells
Reply(digits, num) == [digits |-> digits, num |-> num]
NoReply == Reply(FALSE, 0)

PlacementReplies ==
    {NoReply} \cup {Reply(TRUE, num) : num \in 0..(MaxNodes + 1)}

\* the replies behind the value v that retryableAIOperation returned
RepliesBehind(v) == IF v = "text" THEN PlacementReplies ELSE {NoReply}

\* parseInt(responseText.trim().match(/\d+/)?.[0] || '1', 10)
ChosenParagraphNumber(reply) == IF reply.digits THEN reply.num ELSE 1

TargetParagraphIndex_WithinAnalyzed(chosenParagraphNumber, n) ==
    IF chosenParagraphNumber < 1 \/ chosenParagraphNumber > Min(n, AnalyzedParagraphs)
      THEN 1
      ELSE chosenParagraphNumber - 1

\* targetParagraphIndex
TargetParagraphIndex(chosenParagraphNumber, n) ==
    IF chosenParagraphNumber < 1 \/ chosenParagraphNumber > n
      THEN 1
      ELSE chosenParagraphNumber - 1

Placement(route, out) == [route |-> route, out |-> out]

\* the catch block of getContentWithImagePlaceholder
PlacementCatch(content, error) ==
    Placement("catch", Returns(insertPlaceholderHeuristically(content)))

\* the try block after retryableAIOperation settled as out, with the catch block
PlaceOnReply(content, out, reply) ==
    IF out.type = "error" THEN PlacementCatch(content, out.err)
    ELSE IF out.val = "undefined" THEN PlacementCatch(content, TypeError)
    ELSE
      LET paragraphs == Paragraphs(content)
          targetParagraphIndex ==
              TargetParagraphIndex(ChosenParagraphNumber(reply), Len(paragraphs))
      IN IF targetParagraphIndex < Len(paragraphs)
           THEN Placement("ai", Returns(InsertAfter(content, paragraphs[targetParagraphIndex + 1])))
           ELSE Placement("invalidIndex", Returns(insertPlaceholderHeuristically(content)))

\* the analysis configurations, one for each combination of the fields the
\* configured provider's request reads: the environment key for Gemini, the
\* configuration's key and model for the others
PlacementConfigs ==
    { o \in TextOps("placement", PlacementRetries, PlacementInitialDelay) :
        IF o.provider = "Gemini" THEN ~o.hasKey /\ ~o.hasModel ELSE o.envKey }

\* getContentWithImagePlaceholder(analysisConfig, postContent, postTitle) up to
\* its return or to the awaited AI call
GetContentWithImagePlaceholder ==
    /\ ppc = "idle" /\ pc = "idle"
    /\ \E content \in Contents, o \in PlacementConfigs :
          /\ postContent' = content
          /\ op' = o
          /\ IF TooFew(Paragraphs(content))
               THEN /\ ppc' = "done" /\ pRoute' = "few"
                    /\ pOutcome' = Returns(insertPlaceholderHeuristically(content))
                    /\ UNCHANGED <<pc, i, attempts, waits, errs, settled, outcome, net,
                                   netCalls, n429>>
               ELSE IF Cardinality(ParagraphsToAnalyze(content, Paragraphs(content)))
                         < MinSignificant
                 THEN /\ ppc' = "done" /\ pRoute' = "insignificant"
                      /\ pOutcome' = Returns(insertPlaceholderHeuristically(content))
                      /\ UNCHANGED <<pc, i, attempts, waits, errs, settled, outcome, net,
                                     netCalls, n429>>
                 ELSE /\ ppc' = "asking"
                      /\ StartOp(o)
                      /\ UNCHANGED <<pRoute, pOutcome>>
    /\ UNCHANGED <<pReply, jsonVars, appVars, batchVars>>

\* the AI call settled: the rest of the try block, or the catch block
PlacementSettles ==
    /\ ppc = "asking" /\ pc = "done"
    /\ \E reply \in RepliesBehind(outcome.val) :
       \E res \in {PlaceOnReply(postContent, outcome, reply)} :
          /\ pReply' = reply
          /\ pRoute' = res.route
          /\ pOutcome' = res.out
    /\ ppc' = "done"
    /\ UNCHANGED <<postContent, gwVars, jsonVars, appVars, batchVars>>

PlaceInit ==
    /\ ppc = "idle" /\ postContent = <<>> /\ pReply = NoReply /\ pRoute = "none"
    /\ pOutcome = PlaceNone

InitPlacement == GwInit /\ JsonIdle /\ BatchIdle /\ PlaceInit /\ AppIdle

NextPlacement ==
    \/ GetContentWithImagePlaceholder
    \/ PlacementSettles
    \/ NetResponds
    \/ TimeoutFires
    \/ BackoffElapsed

SpecPlacement == InitPlacement /\ [][NextPlacement]_vars

----------------------------------------------------------------------------
(* Properties of the placement of the marker *)

NumParagraphs == Len(Paragraphs(postContent))

MarkerCount(content) == Cardinality({k \in 1..Len(content) : content[k] = Marker})

Remove(content, k) == SubSeq(content, 1, k - 1) \o SubSeq(content, k + 1, Len(content))

\* result is content with one marker put directly after its t-th paragraph,
\* or before everything when t = 0
MarkerAfter(content, result, t) ==
    \E k \in 1..Len(result) :
        /\ result[k] = Marker
        /\ Remove(result, k) = content
        /\ Len(Paragraphs(SubSeq(result, 1, k - 1))) = t
        /\ IF t = 0 THEN k = 1 ELSE result[k - 1].tag = "p"

\* the paragraph the heuristic is said to put the marker after
HeuristicParagraph(n) == IF n > 2 THEN 2 ELSE IF n >= 1 THEN 1 ELSE 0

Asked == attempts > 0

\* the AI call failed: it threw, or it came back without any text
AICallFailed ==
    /\ ppc = "done" /\ Asked
    /\ (outcome.type = "error" \/ outcome.val \in {"", "undefined"})

\* C16: getContentWithImagePlaceholder never ends in an error, and when the
\* AI call failed (an error of any kind, or an empty reply) what it returns
\* is the content with the marker where the heuristic puts it.
C16_FailureFallsBackToHeuristic ==
    /\ ppc = "done" => pOutcome.type = "value"
    /\ AICallFailed =>
          MarkerAfter(postContent, pOutcome.content, HeuristicParagraph(NumParagraphs))

\* C17: when the AI's reply holds no integer, or an integer outside 1..P, the
\* marker is put directly after paragraph 1 and the content is returned.
C17_InvalidReplyAfterFirstParagraph ==
    (/\ ppc = "done" /\ outcome.type = "value" /\ outcome.val = "text"
     /\ (~pReply.digits \/ pReply.num \notin 1..NumParagraphs)) =>
        /\ pOutcome.type = "value"
        /\ MarkerAfter(postContent, pOutcome.content, 1)

\* C18: whenever the heuristic places the marker, it is directly after the
\* 2nd paragraph of a content with more than 2 paragraphs, after the 1st of
\* one with 2, after the only one of one with 1, and before everything when
\* there is none; an AI call that ended in an error leads to the heuristic.
C18_HeuristicPlacement ==
    /\ (ppc = "done" /\ pRoute \in {"few", "insignificant", "catch", "invalidIndex"}) =>
          /\ pOutcome.type = "value"
          /\ MarkerAfter(postContent, pOutcome.content, HeuristicParagraph(NumParagraphs))
    /\ (ppc = "done" /\ outcome.type = "error") => pRoute = "catch"

C18_Witness ==
    /\ ppc = "done" /\ pRoute = "catch" /\ outcome.type = "error"
    /\ postContent = <<Paragraph(81), Paragraph(81), Paragraph(81), Paragraph(81)>>
    /\ pOutcome.content =
          <<Paragraph(81), Paragraph(81), Marker, Paragraph(81), Paragraph(81)>>

\* C19: whatever the content and whatever became of the AI call, the content
\* returned is the input with exactly one marker added.
C19_ExactlyOneMarkerAdded ==
    ppc = "done" =>
        /\ pOutcome.type = "value"
        /\ MarkerCount(pOutcome.content) = MarkerCount(postContent) + 1
        /\ \E k \in 1..Len(pOutcome.content) :
              pOutcome.content[k] = Marker /\ Remove(pOutcome.content, k) = postContent

C19_Witness ==
    /\ ppc = "done" /\ pRoute = "catch" /\ Asked
    /\ MarkerCount(postContent) = 1
    /\ MarkerCount(pOutcome.content) = 2

\* C20: for a content with fewer than 3 paragraphs no AI call is made, and
\* what is returned is the heuristic placement.
C20_FewParagraphsNoAICall ==
    /\ (ppc = "done" /\ NumParagraphs < 3) =>
          /\ ~Asked /\ netCalls = 0 /\ pc = "idle"
          /\ pRoute = "few"
          /\ pOutcome = Returns(insertPlaceholderHeuristically(postContent))
    /\ ppc = "asking" => NumParagraphs >= 3

C20_Witness ==
    /\ ppc = "done" /\ pRoute = "few" /\ netCalls = 0
    /\ postContent = <<Paragraph(81), Heading, Paragraph(81)>>
    /\ pOutcome.content = <<Paragraph(81), Marker, Heading, Paragraph(81)>>

\* the lengths of the trimmed texts of the paragraphs, in document order
ParagraphLens == [k \in 1..NumParagraphs |-> postContent[Paragraphs(postContent)[k]].len]

\* how many of the first 5 paragraphs have a trimmed text of at least min characters
Qualifying(min) ==
    Cardinality({k \in 1..Min(5, NumParagraphs) : ParagraphLens[k] >= min})

\* retryableAIOperation was entered for the content
AICalled == ppc = "asking" \/ (ppc = "done" /\ pRoute \in {"ai", "catch", "invalidIndex"})

\* the content was answered by the heuristic without any AI call
HeuristicWithoutAI ==
    /\ ppc = "done" /\ pRoute \in {"few", "insignificant"}
    /\ ~Asked /\ netCalls = 0 /\ pc = "idle"
    /\ pOutcome = Returns(insertPlaceholderHeuristically(postContent))

\* C21 as stated: for a content with at least 3 paragraphs, the AI is called
\* exactly when at least 2 of the first 5 paragraphs have a trimmed text of
\* at least 80 characters, and otherwise the heuristic answers with no AI call.
C21_QualifiesFrom80 ==
    (ppc # "idle" /\ NumParagraphs >= 3) =>
        /\ AICalled <=> Qualifying(80) >= 2
        /\ ~AICalled => HeuristicWithoutAI

\* C21 as amended: for a content with at least 3 paragraphs, the AI is called
\* exactly when at least 2 of the first 5 paragraphs have a trimmed text of
\* more than 80 characters (a paragraph of exactly 80 characters is
\* discarded), and otherwise the heuristic answers with no AI call.
C21_QualifiesAbove80 ==
    (ppc # "idle" /\ NumParagraphs >= 3) =>
        /\ AICalled <=> Qualifying(81) >= 2
        /\ ~AICalled => HeuristicWithoutAI

\* six paragraphs, two of more than 80 characters, one of them the sixth:
\* only one of the first five qualifies, and no AI call is made
C21_Witness ==
    /\ ppc = "done" /\ pRoute = "insignificant" /\ netCalls = 0
    /\ NumParagraphs = 6
    /\ ParagraphLens = <<81, 80, 80, 80, 80, 81>>

\* the AI's reply was read and spells a number of a paragraph of the post
ValidReply == ppc = "done" /\ pReply.digits /\ pReply.num \in 1..NumParagraphs

\* C35: a reply whose first integer n is the number of a paragraph of the
\* post (1 <= n <= P) is accepted: the content is returned with one marker
\* more, directly after paragraph n, also when paragraph n was not among
\* the numbered paragraphs sent to the AI.
C35_AnyParagraphOfThePostIsAccepted ==
    ValidReply =>
        /\ pRoute = "ai"
        /\ pOutcome.type = "value"
        /\ MarkerCount(pOutcome.content) = MarkerCount(postContent) + 1
        /\ MarkerAfter(postContent, pOutcome.content, pReply.num)
        /\ pOutcome.content[Paragraphs(postContent)[pReply.num] + 1] = Marker

\* the AI named the sixth paragraph, which is short and beyond the first five
C35_Witness ==
    /\ ValidReply /\ pReply.num = 6 /\ NumParagraphs = 6
    /\ pReply.num \notin ParagraphsToAnalyze(postContent, Paragraphs(postContent))
    /\ postContent[6] = Paragraph(SignificantLength)
    /\ pOutcome.content = postContent \o <<Marker>>

----------------------------------------------------------------------------
(* generateImage called over and over, for any of the image providers *)

\* generateImage returned or threw: its caller sees how it ended
ImageReturns ==
    /\ pc = "done" /\ op.kind = "image"
    /\ imgLog' = [imgLog EXCEPT ![op.provider] =
          IF outcome.type = "value"
            THEN ImageEnd("value", netCalls, {})
            ELSE ImageEnd(outcome.err.cls, netCalls, outcome.err.marks \cap AIProvider)]
    /\ GatewayReturns
    /\ UNCHANGED <<op, jsonVars, batchVars, placeVars, uiVars>>

NextImage ==
    \/ GenerateImage
    \/ ImageReturns
    \/ NetResponds
    \/ TimeoutFires
    \/ BackoffElapsed

SpecImage == Init /\ [][NextImage]_vars

----------------------------------------------------------------------------
(* Properties of generateImage *)

\* the three paid image vendors of AIProvider
PaidVendors == {"DallE3", "Stability", "OpenRouter"}

Called(p) == imgLog[p].result # "none"

\* C22: a generateImage call for a provider without implementation ends at
\* once in an error that names the provider: no network request is issued,
\* nothing is awaited and nothing is retried; calls for the other providers
\* made before or after it are not affected.
C22_NotImplementedFailsAtOnce ==
    /\ \A p \in PaidVendors : Called(p) => imgLog[p] = ImageEnd("NotImplemented", 0, {p})
    /\ (op.kind = "image" /\ op.provider \in PaidVendors) =>
          /\ pc \in {"idle", "done"}
          /\ net = NoNet /\ netCalls = 0 /\ attempts = 0 /\ waits = <<>>
          /\ pc = "done" => outcome = Thrown(NotImplementedError(op.provider))

\* a call for a paid vendor failed and was followed by a call for the free
\* provider that is fetching its image
C22_Witness ==
    /\ imgLog["Stability"] = ImageEnd("NotImplemented", 0, {"Stability"})
    /\ op.kind = "image" /\ op.provider = "Pollinations"
    /\ pc = "pre" /\ netCalls = 1

\* C23 as stated: once generateImage was called for the three paid vendors,
\* exactly two of them ended in the not-implemented error (one is
\* implemented), and the calls for Gemini and Pollinations never end in it.
C23_OnePaidVendorImplemented ==
    /\ (\A p \in PaidVendors : Called(p)) =>
          Cardinality({p \in PaidVendors : imgLog[p].result = "NotImplemented"}) = 2
    /\ \A p \in AIProvider \ PaidVendors : imgLog[p].result # "NotImplemented"

\* C23 as amended: a generateImage call ends in the not-implemented error
\* exactly when it is for one of the three paid vendors: none of them is
\* implemented, Gemini and Pollinations are.
C23_NoPaidVendorImplemented ==
    /\ \A p \in AIProvider :
          Called(p) => (imgLog[p].result = "NotImplemented" <=> p \in PaidVendors)
    /\ (\A p \in PaidVendors : Called(p)) =>
          Cardinality({p \in PaidVendors : imgLog[p].result = "NotImplemented"}) = 3

\* all five providers were called: the two implemented ones returned an image
C23_Witness ==
    /\ \A p \in AIProvider : Called(p)
    /\ imgLog["Gemini"].result = "value" /\ imgLog["Gemini"].calls >= 1
    /\ imgLog["Pollinations"] = ImageEnd("value", 1, {})

----------------------------------------------------------------------------
(* The crawl: App.handleStartCrawling over the WordPress service            *)
(* (getTotalPosts, fetchPosts, wpFetch), and App.handleReset.  A post is    *)
(* what the crawl reads of it: featured_media and imageCount.               *)

FeaturedWeight == 1000
BaseScore == 100
PerPage == 100

MaxTotal == 3
MaxPagePosts == 2

Post(featured_media, imageCount) ==
    [featured_media |-> featured_media, imageCount |-> imageCount]

\* featured_media: 0 when the post has no featured image, else a media id
FeaturedMedia == {0, 7}
\* the number of img tags in the rendered content
ImageCounts == {0, 3, FeaturedWeight + 1}

PostKinds == {Post(f, c) : f \in FeaturedMedia, c \in ImageCounts}

\* the posts one page request can be answered with
Pages == UNION { [1..n -> PostKinds] : n \in 0..MaxPagePosts }

\* Error(`WordPress API request failed with status ${status}: ${statusText}`)
\* Error('WordPress API request failed with status ${status}: ${statusText}');
\* the reason phrase is taken to spell no status number
WpStatusError(status) == Err("Error", status, {ToString(status)})
\* the TypeError fetch rejects with: Chromium's says "Failed to fetch", other
\* browsers' messages do not
FetchFailed == Err("TypeError", 0, {"Failed to fetch"})
FetchFailedOther == Err("TypeError", 0, {})
\* response.json() on a body that is not JSON
BodySyntaxError == Err("SyntaxError", 0, {})

WpStatuses == {401, 403, 404, 500}

WpAnswer(t, status, n, page) == [t |-> t, status |-> status, n |-> n, page |-> page]

\* what wpFetch can throw, whatever the endpoint
WpFailures ==
    {WpAnswer("http", st, 0, <<>>) : st \in WpStatuses}
      \cup {WpAnswer("netfail", 0, 0, <<>>), WpAnswer("netfailOther", 0, 0, <<>>)}

\* answers to /posts?per_page=1: with the header X-WP-Total (n = -1 when it
\* parses to NaN or to a negative number), without it, or a failure
CountAnswers ==
    {WpAnswer("ok", 200, n, <<>>) : n \in -1..MaxTotal}
      \cup {WpAnswer("noHeader", 200, 0, <<>>)} \cup WpFailures

\* answers to /posts?per_page=100&page=N
PageAnswers ==
    {WpAnswer("ok", 200, 0, pg) : pg \in Pages}
      \cup {WpAnswer("badBody", 200, 0, <<>>)} \cup WpFailures

\* wpFetch: the error it throws for answer r, NoErr when it returns
wpFetch(r) ==
    CASE r.t = "netfail" -> FetchFailed
      [] r.t = "netfailOther" -> FetchFailedOther
      [] r.status # 200 -> WpStatusError(r.status)
      [] OTHER -> NoErr

getTotalPosts_ZeroOnFailure(r) ==
    IF wpFetch(r) # NoErr \/ r.t = "noHeader"
      THEN [type |-> "value", val |-> 0, err |-> NoErr]
      ELSE [type |-> "value", val |-> r.n, err |-> NoErr]

\* getTotalPosts after the request was answered by r
getTotalPosts(r) ==
    IF wpFetch(r) # NoErr THEN Thrown(wpFetch(r))
    ELSE IF r.t = "noHeader" THEN [type |-> "value", val |-> 0, err |-> NoErr]
    ELSE [type |-> "value", val |-> r.n, err |-> NoErr]

\* fetchPosts after the request was answered by r
fetchPosts(r) ==
    IF wpFetch(r) # NoErr THEN [type |-> "error", val |-> <<>>, err |-> wpFetch(r)]
    ELSE IF r.t = "badBody" THEN [type |-> "error", val |-> <<>>, err |-> BodySyntaxError]
    ELSE [type |-> "value", val |-> r.page, err |-> NoErr]

\* a request sent to the CMS; answer is "pending" until it is answered, then
\* "ok", or "failed" when the answer is a failure or cannot be read; t and
\* status are what came back: the kind of answer and response.status
WpRequest(kind, page, perPage) ==
    [kind |-> kind, page |-> page, perPage |-> perPage, answer |-> "pending",
     t |-> "pending", status |-> 0]

Answered(log, r) ==
    [log EXCEPT ![Len(log)].answer = IF r.t \in {"ok", "noHeader"} THEN "ok" ELSE "failed",
                ![Len(log)].t = r.t,
                ![Len(log)].status = r.status]

\* error.message.includes(s)
Includes(error, s) == s \in error.marks

\* the message the catch block of handleStartCrawling alerts
CrawlMessage(error) ==
    IF Includes(error, "401") \/ Includes(error, "403") THEN "auth"
    ELSE IF error.cls = "TypeError" /\ Includes(error, "Failed to fetch") THEN "network"
    ELSE IF Includes(error, "404") THEN "notFound"
    ELSE "own"

\* aScore / bScore of the sort's comparator
Score(post) ==
    (IF post.featured_media = 0 THEN FeaturedWeight ELSE 0) + (BaseScore - post.imageCount)

\* the comparator: negative when a goes before b
Compare(a, b) == Score(b) - Score(a)

\* q is sorted by Compare: x goes behind the last element that is not to
\* come after it
InsertSorted(q, x) ==
    LET k == IF \E j \in 1..Len(q) : Compare(q[j], x) <= 0
               THEN CHOOSE j \in 1..Len(q) :
                       /\ Compare(q[j], x) <= 0
                       /\ \A m \in (j + 1)..Len(q) : Compare(q[m], x) > 0
               ELSE 0
    IN SubSeq(q, 1, k) \o <<x>> \o SubSeq(q, k + 1, Len(q))

\* Array.prototype.sort with Compare: a stable sort
RECURSIVE SortPosts(_)
SortPosts(q) ==
    IF q = <<>> THEN <<>>
    ELSE InsertSorted(SortPosts(SubSeq(q, 1, Len(q) - 1)), q[Len(q)])

\* the catch block of handleStartCrawling
CatchCrawl(error) ==
    /\ alertMsg' = CrawlMessage(error)
    /\ appState' = "Configuration"
    /\ cpc' = "idle"

CrawlContinues_Inclusive(count, tot) == count <= tot

\* while (allPosts.length < total)
CrawlContinues(count, tot) == count < tot

\* the loop test with allPosts = all, currentPage = page and total = tot, and what follows
\* it up to the next await or the end of the try block; shown is what the
\* posts state holds before the final setPosts
CrawlLoop(all, page, tot, shown, log) ==
    /\ allPosts' = all
    /\ currentPage' = page
    /\ IF CrawlContinues(Len(all), tot)
         THEN /\ cpc' = "page"
              /\ wpLog' = Append(log, WpRequest("posts", page, PerPage))
              /\ posts' = shown
              /\ UNCHANGED appState
         ELSE /\ cpc' = "idle"
              /\ posts' = SortPosts(all)
              /\ appState' = "Results"
              /\ wpLog' = log

\* handleStartCrawling(newConfig) up to the awaited getTotalPosts
HandleStartCrawling ==
    /\ appState = "Configuration" /\ cpc = "idle"
    /\ config' = "set"
    /\ appState' = "Crawling"
    /\ posts' = <<>>
    /\ cpc' = "count"
    /\ wpLog' = <<WpRequest("count", 0, 1)>>
    /\ alertMsg' = ""
    /\ total' = 0 /\ allPosts' = <<>> /\ currentPage' = 1
    /\ UNCHANGED <<crawlProgress, gwVars, jsonVars, batchVars, placeVars, imgVars,
                   pipeVars, cfgVars>>

\* getTotalPosts settled
CountResponds ==
    /\ cpc = "count"
    /\ \E r \in CountAnswers :
       \E res \in {getTotalPosts(r)} :
          IF res.type = "error"
            THEN /\ CatchCrawl(res.err)
                 /\ wpLog' = Answered(wpLog, r)
                 /\ UNCHANGED <<posts, crawlProgress, total, allPosts, currentPage>>
            ELSE /\ total' = res.val
                 /\ crawlProgress' = [current |-> 0, total |-> res.val]
                 /\ CrawlLoop(<<>>, 1, res.val, posts, Answered(wpLog, r))
                 /\ UNCHANGED alertMsg
    /\ UNCHANGED <<config, gwVars, jsonVars, batchVars, placeVars, imgVars,
                   pipeVars, cfgVars>>

\* fetchPosts settled
PageResponds ==
    /\ cpc = "page"
    /\ \E r \in PageAnswers :
       \E res \in {fetchPosts(r)} :
          IF res.type = "error"
            THEN /\ CatchCrawl(res.err)
                 /\ wpLog' = Answered(wpLog, r)
                 /\ UNCHANGED <<posts, crawlProgress, total, allPosts, currentPage>>
            ELSE IF Len(res.val) = 0
              THEN /\ posts' = SortPosts(allPosts)
                   /\ appState' = "Results"
                   /\ cpc' = "idle"
                   /\ wpLog' = Answered(wpLog, r)
                   /\ UNCHANGED <<crawlProgress, total, allPosts, currentPage, alertMsg>>
              ELSE /\ crawlProgress' =
                          [crawlProgress EXCEPT !.current = Len(allPosts) + Len(res.val)]
                   /\ CrawlLoop(allPosts \o res.val, currentPage + 1, total,
                                posts \o res.val, Answered(wpLog, r))
                   /\ UNCHANGED <<total, alertMsg>>
    /\ UNCHANGED <<config, gwVars, jsonVars, batchVars, placeVars, imgVars,
                   pipeVars, cfgVars>>

\* handleReset, offered by the results view
HandleReset ==
    /\ appState = "Results"
    /\ appState' = "Configuration"
    /\ config' = "null"
    /\ posts' = <<>>
    /\ crawlProgress' = [current |-> 0, total |-> 0]
    /\ UNCHANGED <<cpc, total, allPosts, currentPage, alertMsg, wpLog,
                   gwVars, jsonVars, batchVars, placeVars, imgVars, pipeVars, cfgVars>>

CrawlInit == cpc = "idle" /\ AppStart

InitCrawl ==
    /\ GwInit /\ JsonIdle /\ BatchIdle /\ PlaceIdle /\ ImageIdle /\ CrawlInit /\ PipeIdle
    /\ FormIdle

NextCrawl ==
    \/ HandleStartCrawling
    \/ CountResponds
    \/ PageResponds
    \/ HandleReset

SpecCrawl == InitCrawl /\ [][NextCrawl]_vars

\* every request sent to the CMS is answered or fails: the promises awaited
\* by handleStartCrawling settle
SpecCrawlFair == SpecCrawl /\ WF_vars(CountResponds) /\ WF_vars(PageResponds)

----------------------------------------------------------------------------
(* Properties of the crawl *)

\* C24: whenever the results view is entered, every post without a featured
\* image precedes every post with one in the backlog, and two posts of the
\* same featured class are in ascending order of their image counts,
\* whatever the image counts are.
C24_FeaturedClassDominates ==
    appState = "Results" =>
        \A a, b \in 1..Len(posts) :
            a < b =>
               /\ ~(posts[a].featured_media # 0 /\ posts[b].featured_media = 0)
               /\ (posts[a].featured_media = 0 <=> posts[b].featured_media = 0) =>
                      posts[a].imageCount <= posts[b].imageCount

\* a request of the crawl started last failed
CrawlFailed == \E k \in 1..Len(wpLog) : wpLog[k].answer = "failed"

\* C25: once the count request or a page fetch of a crawl has failed, that
\* request is the last one the crawl sends, the application is back in the
\* Configuration state with a message shown, and the Results state is not
\* entered until another crawl is started; a crawl that shows the Results
\* state had no failed request.
C25_FailedCrawlIsAborted ==
    /\ CrawlFailed =>
          /\ wpLog[Len(wpLog)].answer = "failed"
          /\ cpc = "idle"
          /\ appState = "Configuration"
          /\ alertMsg # ""
    /\ appState = "Results" => \A k \in 1..Len(wpLog) : wpLog[k].answer = "ok"

\* the second page fetch failed with a 401 after one page of posts came in
C25_Witness ==
    /\ Len(wpLog) = 3 /\ wpLog[2].answer = "ok" /\ wpLog[3].answer = "failed"
    /\ wpLog[3].page = 2
    /\ appState = "Configuration" /\ alertMsg = "auth"
    /\ Len(posts) = 1

\* the request of the crawl started last that failed, when one did
FailedRequest == wpLog[Len(wpLog)]

\* C32: a failed crawl is reported by the transport status of the failure:
\* the authentication message for a 401 or 403, the not-found message for a
\* 404, the network/CORS hint when the browser's fetch itself failed, and
\* otherwise the failure's own message; a failure with another status is
\* never reported as an authentication or a not-found problem.
C32_ClassifiedByTransportStatus ==
    CrawlFailed =>
        /\ FailedRequest.status \in {401, 403} <=> alertMsg = "auth"
        /\ FailedRequest.status = 404 <=> alertMsg = "notFound"
        /\ FailedRequest.t \in {"netfail", "netfailOther"} <=> alertMsg = "network"
        /\ alertMsg \in {"auth", "notFound", "network", "own"}

\* the page requests of the crawl started last
PageRequests == SelectSeq(wpLog, LAMBDA e : e.kind = "posts")

\* the requests of a crawl, in the order sent: the count, then page 1, 2, ...
\* with 100 posts per page, each sent after the one before it was answered;
\* a page is awaited only while fewer posts were accumulated than the
\* reported total, each page answered before it having brought a post
CrawlRequestsInOrder ==
    /\ \A k \in 1..Len(wpLog) :
          /\ wpLog[k].kind = (IF k = 1 THEN "count" ELSE "posts")
          /\ k > 1 => (wpLog[k].page = k - 1 /\ wpLog[k].perPage = PerPage)
          /\ k < Len(wpLog) => wpLog[k].answer = "ok"
    /\ cpc = "count" => (Len(wpLog) = 1 /\ wpLog[1].answer = "pending")
    /\ cpc = "page" =>
          /\ wpLog[Len(wpLog)].answer = "pending"
          /\ Len(allPosts) < total
          /\ Len(allPosts) >= Len(PageRequests) - 1
    /\ cpc = "idle" => \A k \in 1..Len(wpLog) : wpLog[k].answer # "pending"
    /\ (cpc \in {"page", "idle"} /\ wpLog # <<>> /\ wpLog[1].answer = "ok") =>
          /\ Len(PageRequests) <= Max(total, 0)
          /\ total <= 0 => PageRequests = <<>>

\* an answered page fetch adds a post to the accumulated list or ends the loop
PageAddsOrStops ==
    cpc = "page" => (Len(allPosts') > Len(allPosts) \/ cpc' = "idle")

\* C36: when every CMS request returns the crawl loop terminates: each
\* iteration adds at least one post to the accumulated list or ends the
\* loop (on an empty page, or on a failure), the pages are requested one at
\* a time in increasing page number, and no page is requested once the
\* accumulated count has reached the reported total, none at all when the
\* reported total is 0.
C36_CrawlTerminates ==
    /\ []CrawlRequestsInOrder
    /\ [][PageAddsOrStops]_vars
    /\ (cpc \in {"count", "page"}) ~> (cpc = "idle")

\* a crawl with a reported total of 3 that ended on the empty second page
C36_Witness ==
    /\ cpc = "idle" /\ appState = "Results" /\ total = MaxTotal
    /\ Len(wpLog) = 3 /\ wpLog[3].page = 2 /\ wpLog[3].answer = "ok"
    /\ Len(allPosts) = 1

\* how often post occurs in the sequence q
Occurrences(q, post) == Cardinality({k \in 1..Len(q) : q[k] = post})

\* the backlog order: the posts without a featured image before the others,
\* and within each of the two classes by ascending count of embedded images
PriorityOrdered(q) ==
    \A a, b \in 1..Len(q) :
        a < b =>
           /\ ~(q[a].featured_media # 0 /\ q[b].featured_media = 0)
           /\ (q[a].featured_media = 0 <=> q[b].featured_media = 0) =>
                  q[a].imageCount <= q[b].imageCount

\* the moves of the application state, and what the reset clears
AppStateMoves ==
    appState' # appState =>
        \/ appState = "Configuration" /\ appState' = "Crawling"
        \/ appState = "Crawling" /\ appState' \in {"Results", "Configuration"}
        \/ /\ appState = "Results" /\ appState' = "Configuration"
           /\ config' = "null" /\ posts' = <<>>
           /\ crawlProgress' = [current |-> 0, total |-> 0]

\* Results is entered from a crawl all of whose requests succeeded, with the
\* posts that crawl fetched and no others
ResultsHoldTheCrawl ==
    appState = "Results" =>
        /\ wpLog # <<>> /\ \A k \in 1..Len(wpLog) : wpLog[k].answer = "ok"
        /\ Len(posts) = Len(allPosts)
        /\ \A post \in PostKinds : Occurrences(posts, post) = Occurrences(allPosts, post)

ResultsInPriorityOrder == appState = "Results" => PriorityOrdered(posts)

\* C37: the application state moves only Configuration -> Crawling ->
\* (Results | Configuration) and Results -> Configuration, the reset clearing
\* the configuration, the posts and the progress; Results is entered only
\* from a crawl whose count request and page fetches all succeeded, and then
\* the post list holds exactly the posts fetched in that crawl, in priority
\* order.
C37_StateMovesAndBacklog ==
    /\ [][AppStateMoves]_vars
    /\ []ResultsHoldTheCrawl
    /\ []ResultsInPriorityOrder

----------------------------------------------------------------------------
(* The job pipeline: one processing pass over the backlog, one post at a    *)
(* time, each post taken through the stages in order.  The CMS calls are    *)
(* uploadImage, updatePost and updateMediaAltText of the WordPress service. *)

MaxBacklog == 2

\* the values of WordPressPost.status on the generation path, in order
Stages ==
    <<"idle", "pending", "generating_brief", "analyzing_placement", "generating_image",
      "uploading", "inserting", "setting_featured", "updating_meta", "success">>

\* the image tag that replaces the marker; len holds the id of the media shown
ImageTag(id) == [tag |-> "img", len |-> id]

\* the ids the CMS gives to uploaded media
MediaIds == {11, 12}

PipelineContents == { <<Paragraph(81), Paragraph(81), Paragraph(81)>> }

BacklogPost(featured_media, content) ==
    [featured_media |-> featured_media, content |-> content]

BacklogPosts == {BacklogPost(f, c) : f \in FeaturedMedia, c \in PipelineContents}

Backlogs == UNION { [1..n -> BacklogPosts] : n \in 1..MaxBacklog }

\* a post of the pass: media is the id uploadImage returned (0 before),
\* generatedImage the mediaId of generatedImage (0 while it is undefined)
Job(post) ==
    [status |-> "pending", statusMessage |-> "", featured_media |-> post.featured_media,
     content |-> post.content, media |-> 0, generatedImage |-> 0]

\* what getContentWithImagePlaceholder can return for content
MarkerPlacements(content) ==
    {insertPlaceholderHeuristically(content)}
      \cup {InsertAfter(content, Paragraphs(content)[t]) : t \in 1..Len(Paragraphs(content))}

\* content.replace(marker, image tag): the first marker becomes the tag
ReplaceMarker(content, id) ==
    IF \E k \in 1..Len(content) : content[k] = Marker
      THEN LET k == CHOOSE j \in 1..Len(content) :
                       content[j] = Marker /\ \A m \in 1..(j - 1) : content[m] # Marker
           IN [content EXCEPT ![k] = ImageTag(id)]
      ELSE content

UploadAnswers == {WpAnswer("ok", 200, id, <<>>) : id \in MediaIds} \cup WpFailures
UpdateAnswers == {WpAnswer("ok", 200, 0, <<>>)} \cup WpFailures

uploadImage_NoId(r) ==
    IF wpFetch(r) # NoErr THEN [type |-> "error", id |-> 0, err |-> wpFetch(r)]
    ELSE [type |-> "value", id |-> 0, err |-> NoErr]

uploadImage_IgnoreStatus(r) == [type |-> "value", id |-> r.n, err |-> NoErr]

\* uploadImage after the POST to /media was answered by r
uploadImage(r) ==
    IF wpFetch(r) # NoErr THEN [type |-> "error", id |-> 0, err |-> wpFetch(r)]
    ELSE [type |-> "value", id |-> r.n, err |-> NoErr]

\* the body of updatePost's request: the fields of update that are present
Update(hasContent, content, hasFeatured, featured_media) ==
    [hasContent |-> hasContent, content |-> content,
     hasFeatured |-> hasFeatured, featured_media |-> featured_media]

updatePost_ClearsFeatured(r, stored, update) ==
    IF wpFetch(r) # NoErr THEN [type |-> "error", post |-> stored, err |-> wpFetch(r)]
    ELSE [type |-> "value",
          post |-> BacklogPost(
                     IF update.hasFeatured THEN update.featured_media ELSE 0,
                     IF update.hasContent THEN update.content ELSE stored.content),
          err |-> NoErr]

\* updatePost after the POST to /posts/{id} was answered by r: the post as
\* the CMS stores it afterwards
updatePost(r, stored, update) ==
    IF wpFetch(r) # NoErr THEN [type |-> "error", post |-> stored, err |-> wpFetch(r)]
    ELSE [type |-> "value",
          post |-> BacklogPost(
                     IF update.hasFeatured THEN update.featured_media
                                           ELSE stored.featured_media,
                     IF update.hasContent THEN update.content ELSE stored.content),
          err |-> NoErr]

\* updateMediaAltText after the POST to /media/{id} was answered by r
updateMediaAltText(r) ==
    IF wpFetch(r) # NoErr THEN Thrown(wpFetch(r)) ELSE Value("")

\* stage 6 is run only for a post without featured image
SetFeaturedNeeded(job) == job.featured_media = 0

\* a stage failed: the post is in error with a message about the stage
Failed(job, stage) == [job EXCEPT !.status = "error", !.statusMessage = stage]

Entered_Restart(job, stage) ==
    [job EXCEPT !.status = IF stage = "setting_featured" THEN "uploading" ELSE stage]

\* the post moves on to stage
Entered(job, stage) == [job EXCEPT !.status = stage]

Terminal(status) == status \in {"success", "error"}

\* the post after the current one
NextPosition(job) == cur + 1

\* the current post becomes job after its stage's work settled with answer
\* (id is the media id the CMS answered with, 0 when it gave none); a post
\* that is over hands the pass to the next one
Settles(stage, answer, id, job) ==
    /\ jobs' = [jobs EXCEPT ![cur] = job]
    /\ stageLog' = [stageLog EXCEPT ![cur] =
                       Append(@, [stage |-> stage, answer |-> answer, id |-> id])]
    /\ IF Terminal(job.status)
         THEN /\ cur' = NextPosition(job)
              /\ rpc' = IF NextPosition(job) > Len(jobs) THEN "done" ELSE "running"
         ELSE UNCHANGED <<cur, rpc>>

Working(stage) == rpc = "running" /\ jobs[cur].status = stage

AnswerOf(r) == IF r.t = "ok" THEN "ok" ELSE "failed"

\* the pass is started over a backlog: every post is queued
StartPass ==
    /\ rpc = "idle"
    /\ \E b \in Backlogs, provider \in AIProvider :
          /\ backlog' = b
          /\ imgProvider' = provider
          /\ jobs' = [k \in 1..Len(b) |-> Job(b[k])]
          /\ cmsPosts' = b
          /\ stageLog' = [k \in 1..Len(b) |-> <<>>]
    /\ cur' = 1 /\ rpc' = "running" /\ mediaAlt' = {}
    /\ UNCHANGED <<gwVars, jsonVars, batchVars, placeVars, imgVars, crawlVars,
                   cfgVars>>

\* the next post of the backlog is taken up
BeginPost ==
    /\ Working("pending")
    /\ jobs' = [jobs EXCEPT ![cur] = Entered(@, "generating_brief")]
    /\ UNCHANGED <<rpc, imgProvider, backlog, cur, cmsPosts, mediaAlt, stageLog,
                   gwVars, jsonVars, batchVars, placeVars, imgVars, crawlVars,
                   cfgVars>>

\* stage 1: brief and alt text
BriefSettles ==
    /\ Working("generating_brief")
    /\ \E answer \in {"ok", "failed"} :
          Settles("generating_brief", answer, 0,
                  IF answer = "ok" THEN Entered(jobs[cur], "analyzing_placement")
                                   ELSE Failed(jobs[cur], "generating_brief"))
    /\ UNCHANGED <<imgProvider, backlog, cmsPosts, mediaAlt,
                   gwVars, jsonVars, batchVars, placeVars, imgVars, crawlVars,
                   cfgVars>>

\* stage 2: the content rewritten with a single marker
PlacementComputed ==
    /\ Working("analyzing_placement")
    /\ \/ \E content \in MarkerPlacements(jobs[cur].content) :
             Settles("analyzing_placement", "ok", 0,
                     Entered([jobs[cur] EXCEPT !.content = content], "generating_image"))
       \/ Settles("analyzing_placement", "failed", 0,
                  Failed(jobs[cur], "analyzing_placement"))
    /\ UNCHANGED <<imgProvider, backlog, cmsPosts, mediaAlt,
                   gwVars, jsonVars, batchVars, placeVars, imgVars, crawlVars,
                   cfgVars>>

\* stage 3: generateImage for the configured provider
ImageSettles ==
    /\ Working("generating_image")
    /\ \E answer \in (IF ImageBranch(imgProvider) = "notImplemented"
                         THEN {"failed"} ELSE {"ok", "failed"}) :
          Settles("generating_image", answer, 0,
                  IF answer = "ok" THEN Entered(jobs[cur], "uploading")
                                   ELSE Failed(jobs[cur], "generating_image"))
    /\ UNCHANGED <<imgProvider, backlog, cmsPosts, mediaAlt,
                   gwVars, jsonVars, batchVars, placeVars, imgVars, crawlVars,
                   cfgVars>>

\* stage 4: uploadImage
UploadSettles ==
    /\ Working("uploading")
    /\ \E r \in UploadAnswers :
       \E res \in {uploadImage(r)} :
          Settles("uploading", AnswerOf(r), r.n,
                  IF res.type = "value"
                    THEN Entered([jobs[cur] EXCEPT !.media = res.id], "inserting")
                    ELSE Failed(jobs[cur], "uploading"))
    /\ UNCHANGED <<imgProvider, backlog, cmsPosts, mediaAlt,
                   gwVars, jsonVars, batchVars, placeVars, imgVars, crawlVars,
                   cfgVars>>

\* stage 5: the marker replaced by the image tag, the content patched
InsertSettles ==
    /\ Working("inserting")
    /\ \E r \in UpdateAnswers :
       \E content \in {ReplaceMarker(jobs[cur].content, jobs[cur].media)} :
       \E res \in {updatePost(r, cmsPosts[cur], Update(TRUE, content, FALSE, 0))} :
          /\ cmsPosts' = [cmsPosts EXCEPT ![cur] = res.post]
          /\ Settles("inserting", AnswerOf(r), 0,
                     IF res.type = "value"
                       THEN Entered([jobs[cur] EXCEPT !.content = content],
                                    IF SetFeaturedNeeded(jobs[cur])
                                      THEN "setting_featured" ELSE "updating_meta")
                       ELSE Failed(jobs[cur], "inserting"))
    /\ UNCHANGED <<imgProvider, backlog, mediaAlt,
                   gwVars, jsonVars, batchVars, placeVars, imgVars, crawlVars,
                   cfgVars>>

\* stage 6: the uploaded media set as the featured image
FeaturedSettles ==
    /\ Working("setting_featured")
    /\ \E r \in UpdateAnswers :
       \E res \in {updatePost(r, cmsPosts[cur], Update(FALSE, <<>>, TRUE, jobs[cur].media))} :
          /\ cmsPosts' = [cmsPosts EXCEPT ![cur] = res.post]
          /\ Settles("setting_featured", AnswerOf(r), 0,
                     IF res.type = "value"
                       THEN Entered([jobs[cur] EXCEPT !.featured_media = jobs[cur].media],
                                    "updating_meta")
                       ELSE Failed(jobs[cur], "setting_featured"))
    /\ UNCHANGED <<imgProvider, backlog, mediaAlt,
                   gwVars, jsonVars, batchVars, placeVars, imgVars, crawlVars,
                   cfgVars>>

\* stage 7: the alt text of the uploaded media patched; stage 8: success
MetaSettles ==
    /\ Working("updating_meta")
    /\ \E r \in UpdateAnswers :
       \E res \in {updateMediaAltText(r)} :
          /\ mediaAlt' = IF res.type = "value" THEN mediaAlt \cup {jobs[cur].media}
                                               ELSE mediaAlt
          /\ Settles("updating_meta", AnswerOf(r), 0,
                     IF res.type = "value"
                       THEN Entered([jobs[cur] EXCEPT !.generatedImage = jobs[cur].media],
                                    "success")
                       ELSE Failed(jobs[cur], "updating_meta"))
    /\ UNCHANGED <<imgProvider, backlog, cmsPosts,
                   gwVars, jsonVars, batchVars, placeVars, imgVars, crawlVars,
                   cfgVars>>

PipeInit == rpc = "idle" /\ PipeStart

InitPipeline ==
    /\ GwInit /\ JsonIdle /\ BatchIdle /\ PlaceIdle /\ ImageIdle /\ CrawlIdle /\ PipeInit
    /\ FormIdle

NextPipeline ==
    \/ StartPass
    \/ BeginPost
    \/ BriefSettles
    \/ PlacementComputed
    \/ ImageSettles
    \/ UploadSettles
    \/ InsertSettles
    \/ FeaturedSettles
    \/ MetaSettles

SpecPipeline == InitPipeline /\ [][NextPipeline]_vars

----------------------------------------------------------------------------
(* Properties of the job pipeline *)

\* a stage of the k-th post failed
StageFailed(k) == \E e \in 1..Len(stageLog[k]) : stageLog[k][e].answer = "failed"

\* C26: a post one of whose stages failed is in status error with a
\* non-empty statusMessage and the pass has gone on behind it: it is at a
\* later post, or over when there is none; when the pass is over every post
\* is in success or in error, and it is in success exactly when none of its
\* own stages failed.
C26_FailuresAreIsolated ==
    /\ \A k \in 1..Len(jobs) :
          StageFailed(k) =>
             /\ jobs[k].status = "error" /\ jobs[k].statusMessage # ""
             /\ cur > k
             /\ rpc = (IF cur > Len(jobs) THEN "done" ELSE "running")
    /\ rpc = "done" =>
          \A k \in 1..Len(jobs) :
             /\ Terminal(jobs[k].status)
             /\ jobs[k].status = "success" <=> ~StageFailed(k)

\* the first post failed at its upload and the second one reached success
C26_Witness ==
    /\ rpc = "done" /\ Len(jobs) = 2
    /\ jobs[1].status = "error" /\ jobs[1].statusMessage = "uploading"
    /\ jobs[2].status = "success"

\* the place of a status in the order of the stages
Rank(status) == CHOOSE n \in 1..Len(Stages) : Stages[n] = status

\* C27: in every step of a pass, a post in success or in error keeps its
\* status, a post whose new status is not error is at the same or a later
\* stage of the order pending, generating_brief, analyzing_placement,
\* generating_image, uploading, inserting, setting_featured, updating_meta,
\* success, and error is entered from a stage that is not terminal.
C27_StatusMovesForward ==
    [][rpc = "running" =>
         \A k \in 1..Len(jobs) :
            /\ Terminal(jobs[k].status) => jobs'[k].status = jobs[k].status
            /\ jobs'[k].status # "error" =>
                   /\ jobs[k].status # "error"
                   /\ Rank(jobs'[k].status) >= Rank(jobs[k].status)
            /\ jobs'[k].status \in {"error"} \cup {Stages[n] : n \in 2..Len(Stages)}]_vars

\* error was entered from the first stage by one post and from the last
\* stage before success by another
C27_Witness ==
    /\ Len(jobs) = 2
    /\ jobs[1].status = "error" /\ jobs[1].statusMessage = "generating_brief"
    /\ jobs[2].status = "error" /\ jobs[2].statusMessage = "updating_meta"

\* the media id the CMS answered the upload of the k-th post with
UploadedId(k) ==
    LET e == CHOOSE e \in 1..Len(stageLog[k]) : stageLog[k][e].stage = "uploading"
    IN stageLog[k][e].id

\* C28: a post in status success has its generatedImage populated with the
\* media id the upload call returned, and the content the CMS stores for it
\* is the original content with the image tag of that media where the marker
\* was put: no marker is left in it.
C28_SuccessRoundTrip ==
    \A k \in 1..Len(jobs) :
        jobs[k].status = "success" =>
           /\ UploadedId(k) \in MediaIds
           /\ jobs[k].generatedImage = UploadedId(k)
           /\ MarkerCount(cmsPosts[k].content) = 0
           /\ \E pos \in 1..Len(cmsPosts[k].content) :
                 /\ cmsPosts[k].content[pos] = ImageTag(UploadedId(k))
                 /\ Remove(cmsPosts[k].content, pos) = backlog[k].content
           /\ jobs[k].content = cmsPosts[k].content

C28_Witness ==
    /\ rpc = "done" /\ Len(jobs) = 1
    /\ jobs[1].status = "success" /\ jobs[1].generatedImage = 12
    /\ cmsPosts[1].content = <<Paragraph(81), Paragraph(81), ImageTag(12), Paragraph(81)>>

\* C29: a post that had a featured image when the pass started never is in
\* the set-featured stage, no request is made for that stage, and its
\* featured media id stays what it was, in the post and in the CMS, up to
\* and including success; the CMS's featured media id of a post is changed
\* only for a post that had none, and then to the uploaded media.
C29_FeaturedImageIsKept ==
    \A k \in 1..Len(jobs) :
        /\ backlog[k].featured_media # 0 =>
              /\ jobs[k].status # "setting_featured"
              /\ \A e \in 1..Len(stageLog[k]) : stageLog[k][e].stage # "setting_featured"
              /\ jobs[k].featured_media = backlog[k].featured_media
              /\ cmsPosts[k].featured_media = backlog[k].featured_media
        /\ cmsPosts[k].featured_media # backlog[k].featured_media =>
              /\ backlog[k].featured_media = 0
              /\ cmsPosts[k].featured_media = UploadedId(k)

\* a post with a featured image reached success, and so did one without,
\* whose featured image now is the uploaded media
C29_Witness ==
    /\ rpc = "done" /\ Len(jobs) = 2
    /\ backlog[1].featured_media = 7 /\ jobs[1].status = "success"
    /\ cmsPosts[1].featured_media = 7
    /\ backlog[2].featured_media = 0 /\ jobs[2].status = "success"
    /\ cmsPosts[2].featured_media = 11

----------------------------------------------------------------------------
(* The configuration form: provider selection, the API key inputs and      *)
(* handleSubmit of ConfigurationStep.                                      *)

\* KEY_HOLDER_MAP[provider]; "undefined" where the map has no entry
KEY_HOLDER_MAP(provider) ==
    CASE provider = "Gemini" -> "Google Gemini"
      [] provider \in {"DallE3", "OpenAI"} -> "OpenAI"
      [] provider = "Stability" -> "Stability AI"
      [] provider = "OpenRouter" -> "OpenRouter"
      [] provider = "Groq" -> "Groq"
      [] OTHER -> "undefined"

SetAdd_Push(holders, holder) == Append(holders, holder)

\* Set.prototype.add, the set kept in insertion order
SetAdd(holders, holder) ==
    IF \E k \in 1..Len(holders) : holders[k] = holder THEN holders
    ELSE Append(holders, holder)

\* imageProvider === AIProvider.Pollinations
IsFree(provider) == provider = "Pollinations"

\* requiredKeyHolders: Array.from(holders)
requiredKeyHolders(image, analysis) ==
    SetAdd(IF IsFree(image) THEN <<>> ELSE SetAdd(<<>>, KEY_HOLDER_MAP(image)),
           KEY_HOLDER_MAP(analysis))

\* getApiKeyForProvider(provider)
getApiKeyForProvider(provider) ==
    IF KEY_HOLDER_MAP(provider) = "undefined" THEN "undefined"
    ELSE apiKeys[KEY_HOLDER_MAP(provider)]

\* the select of the image provider changed
SetImageProvider ==
    /\ kpc = "form"
    /\ \E provider \in AIProvider : imageProvider' = provider
    /\ UNCHANGED <<kpc, analysisProvider, apiKeys, submitted, formAlert,
                   gwVars, jsonVars, batchVars, placeVars, imgVars, crawlVars, pipeVars>>

\* the select of the analysis provider changed
SetAnalysisProvider ==
    /\ kpc = "form"
    /\ \E provider \in TextAIProvider : analysisProvider' = provider
    /\ UNCHANGED <<kpc, imageProvider, apiKeys, submitted, formAlert,
                   gwVars, jsonVars, batchVars, placeVars, imgVars, crawlVars, pipeVars>>

\* a key input, shown for each required key holder, changed
SetApiKey ==
    /\ kpc = "form"
    /\ \E k \in 1..Len(requiredKeyHolders(imageProvider, analysisProvider)),
          secret \in Secrets :
          apiKeys' = [apiKeys EXCEPT
                        ![requiredKeyHolders(imageProvider, analysisProvider)[k]] = secret]
    /\ UNCHANGED <<kpc, imageProvider, analysisProvider, submitted, formAlert,
                   gwVars, jsonVars, batchVars, placeVars, imgVars, crawlVars, pipeVars>>

\* the first required holder without a key, 0 when every one has a key
FirstMissing(holders) ==
    IF \E k \in 1..Len(holders) : apiKeys[holders[k]] = ""
      THEN CHOOSE k \in 1..Len(holders) :
              apiKeys[holders[k]] = "" /\ \A m \in 1..(k - 1) : apiKeys[holders[m]] # ""
      ELSE 0

\* handleSubmit, the WordPress fields being filled in
HandleSubmit ==
    /\ kpc = "form"
    /\ LET holders == requiredKeyHolders(imageProvider, analysisProvider)
       IN IF FirstMissing(holders) # 0
            THEN /\ formAlert' = holders[FirstMissing(holders)]
                 /\ UNCHANGED <<kpc, submitted>>
            ELSE /\ submitted' = [imageKey |-> getApiKeyForProvider(imageProvider),
                                  analysisKey |-> getApiKeyForProvider(analysisProvider)]
                 /\ kpc' = "submitted"
                 /\ UNCHANGED formAlert
    /\ UNCHANGED <<imageProvider, analysisProvider, apiKeys,
                   gwVars, jsonVars, batchVars, placeVars, imgVars, crawlVars, pipeVars>>

FormInit == kpc = "form" /\ FormStart

InitForm ==
    /\ GwInit /\ JsonIdle /\ BatchIdle /\ PlaceIdle /\ ImageIdle /\ CrawlIdle /\ PipeIdle
    /\ FormInit

NextForm ==
    \/ SetImageProvider
    \/ SetAnalysisProvider
    \/ SetApiKey
    \/ HandleSubmit

SpecForm == InitForm /\ [][NextForm]_vars

----------------------------------------------------------------------------
(* Properties of the configuration form *)

\* the key inputs the form shows
Prompts == requiredKeyHolders(imageProvider, analysisProvider)

\* the key holders of the selected providers, in the claim's words: Gemini's
\* is Google Gemini, DALL-E 3 and OpenAI share OpenAI, each other vendor is
\* its own, and the free provider has none
SelectedHolders ==
    { h \in KeyHolders :
        \/ h = "Google Gemini" /\ "Gemini" \in {imageProvider, analysisProvider}
        \/ h = "OpenAI" /\ (imageProvider = "DallE3" \/ analysisProvider = "OpenAI")
        \/ h = "Stability AI" /\ imageProvider = "Stability"
        \/ h = "OpenRouter" /\ "OpenRouter" \in {imageProvider, analysisProvider}
        \/ h = "Groq" /\ analysisProvider = "Groq" }

====
